---- MODULE Spec2Model ----
(***************************************************************************)
(* Witness Witness explorer: the name normaliser, the exclusion filter and *)
(* the witness aggregator of the database explorer (witnessWitness app.js) *)
(* and of the CSV explorer.                                                *)
(*                                                                         *)
(* A JavaScript string is modelled as a sequence of characters, each       *)
(* character a one-character TLA+ string.  Code points outside ASCII are   *)
(* written by name: "e_acute" is U+00E9, "E_ACUTE" is U+00C9 and "en_dash" *)
(* is U+2013.  A token list is a sequence of such strings.                 *)
(***************************************************************************)
EXTENDS Integers, Sequences, FiniteSets, TLC

VARIABLES
    explorer,               \* "db": witnessWitness app.js, "csv": the CSV explorer
    pc,                     \* position of initialise()
    dbHearingRows,          \* rows of table hearings (ORDER BY date, id)
    dbWitnessRows,          \* rows of table witnesses (ORDER BY hearing_id, id)
    csvRows,                \* CSV explorer: the data rows of the CSV file
    excludedPayload,        \* what fetching excluded_legislator_keys.json yields
    excludedLegislatorKeys, \* value of excludedLegislatorKeysPromise once settled
    hearings,               \* state.hearings
    foldIndex,              \* hearings already folded by buildWitnessMap
    map,                    \* buildWitnessMap: const map (insertion ordered)
    witnessMap,             \* state.witnessMap (insertion ordered)
    sortedWitnesses,        \* state.sortedWitnesses
    baseName,               \* normaliser input: a raw name
    variantName,            \* normaliser input: the raw name, decorated
    decorations,            \* normaliser input: decorations applied so far
    normPhase,              \* normaliser input: "input" or "normalised"
    normBase,               \* normaliseNameKey(baseName)
    normVariant,            \* normaliseNameKey(variantName)
    normTwice,              \* normaliseNameKey(normVariant)
    stripIn,                \* argument of stripTrailingLocationTokens
    stripOut,               \* its result
    timezoneOffset,         \* hours the browser's local time is ahead of UTC
    filters,                \* state.filters
    selectedWitnessKey,     \* state.selectedWitnessKey
    filteredHearings,       \* state.filteredHearings (positions in state.hearings)
    sort,                   \* state.sort
    witnessElements,        \* state.witnessElements: the keys that have a button
    rerun,                  \* a second buildWitnessMap and sort over the same input
    sqlJsInstancePromise,   \* let sqlJsInstancePromise (0: undefined)
    excludedLegislatorKeysPromise, \* let excludedLegislatorKeysPromise (0: undefined)
    promises,               \* the promises created so far, and how each has settled
    loadsStarted,           \* network loads started, for sql.js and for the key list
    returnedPromises,       \* what each call of the two loaders has returned
    attachRows,             \* attachWitnessesToHearings: the witness rows given
    attached,               \* attachWitnessesToHearings: the hearings afterwards
    csvText,                \* parseCSV: the text given
    csvParsed               \* parseCSV: the rows returned

appVars == <<explorer, pc, dbHearingRows, dbWitnessRows, csvRows, excludedPayload,
             excludedLegislatorKeys, hearings, foldIndex, map, witnessMap,
             sortedWitnesses>>
normVars == <<baseName, variantName, decorations, normPhase, normBase,
              normVariant, normTwice, stripIn, stripOut>>
uiVars == <<timezoneOffset, filters, selectedWitnessKey, filteredHearings, sort,
            witnessElements, rerun>>
promiseVars == <<sqlJsInstancePromise, excludedLegislatorKeysPromise, promises,
                 loadsStarted, returnedPromises>>
attachVars == <<attachRows, attached>>
csvVars == <<csvText, csvParsed>>
functionVars == <<normVars, promiseVars, attachVars, csvVars>>
vars == <<appVars, uiVars, functionVars>>

----------------------------------------------------------------------------
(* Characters and the String methods the code uses.                        *)

LowerLetters ==
    <<"a","b","c","d","e","f","g","h","i","j","k","l","m",
      "n","o","p","q","r","s","t","u","v","w","x","y","z">>
UpperLetters ==
    <<"A","B","C","D","E","F","G","H","I","J","K","L","M",
      "N","O","P","Q","R","S","T","U","V","W","X","Y","Z">>

Range(f) == { f[i] : i \in DOMAIN f }
LowerSet == Range(LowerLetters)
UpperSet == Range(UpperLetters)
AsciiLetters == LowerSet \cup UpperSet
Digits == {"0","1","2","3","4","5","6","7","8","9"}
\* \s of a JavaScript regular expression (the members the inputs can hold)
Whitespace == {" ", "\t", "\n", "\r"}
\* \w of a JavaScript regular expression without the u flag
IsWordChar(c) == c \in AsciiLetters \cup Digits \cup {"_"}

JSNull == <<"null">>
\* typeof x === 'string': every element is one character
IsString(x) == \A i \in DOMAIN x : x[i] # "null"

LetterIndex(c, alphabet) == CHOOSE i \in DOMAIN alphabet : alphabet[i] = c

\* String.prototype.toLowerCase, one character
LowerChar(c) ==
    IF c \in UpperSet THEN LowerLetters[LetterIndex(c, UpperLetters)]
    ELSE IF c = "E_ACUTE" THEN "e_acute"
    ELSE c
\* String.prototype.toUpperCase, one character
UpperChar(c) ==
    IF c \in LowerSet THEN UpperLetters[LetterIndex(c, LowerLetters)]
    ELSE IF c = "e_acute" THEN "E_ACUTE"
    ELSE c
toLowerCase(s) == [i \in 1..Len(s) |-> LowerChar(s[i])]
toUpperCase(s) == [i \in 1..Len(s) |-> UpperChar(s[i])]

RECURSIVE Concat(_)
\* the concatenation of a sequence of strings
Concat(ss) == IF ss = <<>> THEN <<>> ELSE Head(ss) \o Concat(Tail(ss))

\* String.prototype.trim
trim(s) ==
    LET keep == { i \in 1..Len(s) : s[i] \notin Whitespace }
    IN  IF keep = {} THEN <<>>
        ELSE LET lo == CHOOSE i \in keep : \A j \in keep : i <= j
                 hi == CHOOSE i \in keep : \A j \in keep : i >= j
             IN  SubSeq(s, lo, hi)

RECURSIVE CollapseFrom(_, _)
\* s.replace(/\s+/g, ' ') from position i on
CollapseFrom(s, i) ==
    IF i > Len(s) THEN <<>>
    ELSE IF s[i] \in Whitespace
         THEN IF i > 1 /\ s[i-1] \in Whitespace
              THEN CollapseFrom(s, i + 1)
              ELSE <<" ">> \o CollapseFrom(s, i + 1)
         ELSE <<s[i]>> \o CollapseFrom(s, i + 1)

RECURSIVE SplitFrom(_, _, _, _)
\* the pieces of s from position i on, cut at every separator character;
\* cur is the piece being read
SplitFrom(s, seps, i, cur) ==
    IF i > Len(s) THEN <<cur>>
    ELSE IF s[i] \in seps
         THEN <<cur>> \o SplitFrom(s, seps, i + 1, <<>>)
         ELSE SplitFrom(s, seps, i + 1, Append(cur, s[i]))

NonEmpty(piece) == piece # <<>>
\* s.split(/\s+/).filter(Boolean): a run of separators leaves only empty
\* pieces, which filter(Boolean) drops
splitWhitespace(s) == SelectSeq(SplitFrom(s, Whitespace, 1, <<>>), NonEmpty)
\* s.split(' ').filter(Boolean)
splitSpaces(s) == SelectSeq(SplitFrom(s, {" "}, 1, <<>>), NonEmpty)

RECURSIVE join(_, _)
\* Array.prototype.join
join(parts, sep) ==
    IF parts = <<>> THEN <<>>
    ELSE IF Len(parts) = 1 THEN parts[1]
    ELSE parts[1] \o sep \o join(Tail(parts), sep)

\* s.includes(c) for a one-character c
includesChar(s, c) == \E i \in DOMAIN s : s[i] = c
\* s.replace(/c/g, r) for a one-character c and a string r
replaceChar(s, c, r) ==
    Concat([i \in 1..Len(s) |-> IF s[i] = c THEN r ELSE <<s[i]>>])

\* whether word w stands in s at position i
MatchAt(s, i, w) ==
    /\ i + Len(w) - 1 <= Len(s)
    /\ \A k \in 1..Len(w) : s[i + k - 1] = w[k]
\* \b of a regular expression between positions i-1 and i of s
WordBoundary(s, i) ==
    LET before == i > 1 /\ i - 1 <= Len(s) /\ IsWordChar(s[i-1])
        after  == i >= 1 /\ i <= Len(s) /\ IsWordChar(s[i])
    IN  before # after

----------------------------------------------------------------------------
(* Constants of witnessWitness app.js.                                     *)

MAX_HEARING_COUNT_PER_WITNESS == 55

\* NAME_TITLE_TOKENS (witnessWitness app.js lines 41-68)
NAME_TITLE_TOKENS ==
    { <<"t","h","e">>, <<"s","e","n">>, <<"s","e","n","a","t","o","r">>, <<"r","e","p">>,
      <<"r","e","p","r","e","s","e","n","t","a","t","i","v","e">>,
      <<"d","e","l","e","g","a","t","e">>, <<"c","o","m","m","i","s","s","i","o","n","e","r">>,
      <<"c","h","a","i","r">>, <<"c","h","a","i","r","m","a","n">>,
      <<"c","h","a","i","r","w","o","m","a","n">>, <<"r","a","n","k","i","n","g">>,
      <<"m","e","m","b","e","r">>, <<"h","o","n">>, <<"h","o","n","o","r","a","b","l","e">>,
      <<"m","r">>, <<"m","r","s">>, <<"m","s">>, <<"m","i","s","s">>, <<"d","r">>,
      <<"p","r","o","f">>, <<"r","e","v","e","r","e","n","d">>, <<"r","e","v">>, <<"s","i","r">>,
      <<"m","a","d","a","m">>, <<"m","a","y","o","r">>, <<"g","o","v","e","r","n","o","r">> }

\* NAME_SUFFIX_TOKENS (witnessWitness app.js lines 70-70)
NAME_SUFFIX_TOKENS ==
    { <<"j","r">>, <<"s","r">>, <<"i","i">>, <<"i","i","i">>, <<"i","v">>, <<"v">> }

\* LOCATION_KEYWORDS (witnessWitness app.js lines 72-72)
LOCATION_KEYWORDS ==
    { <<"o","f">>, <<"f","o","r">>, <<"f","r","o","m">> }

\* LOCATION_TOKENS (witnessWitness app.js lines 74-149)
LOCATION_TOKENS ==
    { <<"o","f">>, <<"t","h","e">>, <<"s","t","a","t","e">>,
      <<"c","o","m","m","o","n","w","e","a","l","t","h">>,
      <<"t","e","r","r","i","t","o","r","y">>, <<"d","i","s","t","r","i","c","t">>,
      <<"c","o","l","u","m","b","i","a">>, <<"w","a","s","h","i","n","g","t","o","n">>,
      <<"d","c">>, <<"u","n","i","t","e","d">>, <<"s","t","a","t","e","s">>,
      <<"a","m","e","r","i","c","a">>, <<"a","t">>, <<"l","a","r","g","e">>,
      <<"p","u","e","r","t","o">>, <<"r","i","c","o">>, <<"v","i","r","g","i","n">>,
      <<"i","s","l","a","n","d","s">>, <<"n","o","r","t","h","e","r","n">>,
      <<"m","a","r","i","a","n","a">>, <<"g","u","a","m">>, <<"s","a","m","o","a">>,
      <<"a","m","e","r","i","c","a","n">>, <<"a","l","a","b","a","m","a">>,
      <<"a","l","a","s","k","a">>, <<"a","r","i","z","o","n","a">>,
      <<"a","r","k","a","n","s","a","s">>, <<"c","a","l","i","f","o","r","n","i","a">>,
      <<"c","o","l","o","r","a","d","o">>, <<"c","o","n","n","e","c","t","i","c","u","t">>,
      <<"d","e","l","a","w","a","r","e">>, <<"f","l","o","r","i","d","a">>,
      <<"g","e","o","r","g","i","a">>, <<"h","a","w","a","i","i">>, <<"i","d","a","h","o">>,
      <<"i","l","l","i","n","o","i","s">>, <<"i","n","d","i","a","n","a">>, <<"i","o","w","a">>,
      <<"k","a","n","s","a","s">>, <<"k","e","n","t","u","c","k","y">>,
      <<"l","o","u","i","s","i","a","n","a">>, <<"m","a","i","n","e">>,
      <<"m","a","r","y","l","a","n","d">>,
      <<"m","a","s","s","a","c","h","u","s","e","t","t","s">>,
      <<"m","i","c","h","i","g","a","n">>, <<"m","i","n","n","e","s","o","t","a">>,
      <<"m","i","s","s","i","s","s","i","p","p","i">>, <<"m","i","s","s","o","u","r","i">>,
      <<"m","o","n","t","a","n","a">>, <<"n","e","b","r","a","s","k","a">>,
      <<"n","e","v","a","d","a">>, <<"n","e","w">>, <<"h","a","m","p","s","h","i","r","e">>,
      <<"j","e","r","s","e","y">>, <<"m","e","x","i","c","o">>, <<"y","o","r","k">>,
      <<"n","o","r","t","h">>, <<"c","a","r","o","l","i","n","a">>, <<"d","a","k","o","t","a">>,
      <<"s","o","u","t","h">>, <<"o","h","i","o">>, <<"o","k","l","a","h","o","m","a">>,
      <<"o","r","e","g","o","n">>, <<"p","e","n","n","s","y","l","v","a","n","i","a">>,
      <<"r","h","o","d","e">>, <<"i","s","l","a","n","d">>,
      <<"t","e","n","n","e","s","s","e","e">>, <<"t","e","x","a","s">>, <<"u","t","a","h">>,
      <<"v","e","r","m","o","n","t">>, <<"v","i","r","g","i","n","i","a">>, <<"w","e","s","t">>,
      <<"w","i","s","c","o","n","s","i","n">>, <<"w","y","o","m","i","n","g">> }

\* NON_NAME_TOKENS (witnessWitness app.js lines 151-176)
NON_NAME_TOKENS ==
    { <<"a","v","a","i","l","a","b","l","e">>, <<"b","r","i","e","f","i","n","g">>,
      <<"c","l","i","c","k">>, <<"c","l","o","s","i","n","g">>,
      <<"c","o","m","m","i","t","t","e","e">>, <<"d","o","c","u","m","e","n","t">>,
      <<"f","u","l","l">>, <<"h","e","a","r","i","n","g">>, <<"h","e","r","e">>,
      <<"l","i","n","k">>, <<"m","a","t","e","r","i","a","l","s">>,
      <<"o","p","e","n","i","n","g">>, <<"p","r","e","s","s">>, <<"r","e","l","e","a","s","e">>,
      <<"r","e","p","o","r","t">>, <<"s","t","a","t","e","m","e","n","t">>,
      <<"s","u","b","m","i","s","s","i","o","n">>, <<"s","u","b","m","i","t","t","e","d">>,
      <<"s","u","m","m","a","r","y">>, <<"t","e","s","t","i","m","o","n","y">>,
      <<"t","r","a","n","s","c","r","i","p","t">>, <<"v","i","d","e","o">>,
      <<"w","e","b","c","a","s","t">>, <<"w","r","i","t","t","e","n">> }

\* PARTY_AFFILIATION_REGEX:
\*   /\b(?:R|D|I|ID|IND|DEM|REP|GOP)\b\s*[-en_dash]?\s*\(?[A-Z]{2}\)?\b/
PartyAbbreviations ==
    { <<"R">>, <<"D">>, <<"I">>, <<"I","D">>, <<"I","N","D">>,
      <<"D","E","M">>, <<"R","E","P">>, <<"G","O","P">> }
RECURSIVE SkipSpaces(_, _)
\* the position after a maximal run of whitespace starting at i
SkipSpaces(s, i) ==
    IF i <= Len(s) /\ s[i] \in Whitespace THEN SkipSpaces(s, i + 1) ELSE i
\* the rest of PARTY_AFFILIATION_REGEX after the abbreviation and its \b:
\* \s*[-en_dash]?\s*\(?[A-Z]{2}\)?\b from position i.  The optional parts
\* are tried both ways, as the backtracking matcher does.
PartyStateTail(s, i) ==
    LET afterWs1 == i..SkipSpaces(s, i)
        afterDash == afterWs1 \cup
            { j + 1 : j \in { k \in afterWs1 : k <= Len(s) /\ s[k] \in {"-", "en_dash"} } }
        afterWs2 == UNION { j..SkipSpaces(s, j) : j \in afterDash }
        afterOpen == afterWs2 \cup
            { j + 1 : j \in { k \in afterWs2 : k <= Len(s) /\ s[k] = "(" } }
        afterState == { j + 2 : j \in { k \in afterOpen :
                          k + 1 <= Len(s) /\ s[k] \in UpperSet /\ s[k+1] \in UpperSet } }
        afterClose == afterState \cup
            { j + 1 : j \in { k \in afterState : k <= Len(s) /\ s[k] = ")" } }
    IN  \E j \in afterClose : WordBoundary(s, j)
\* PARTY_AFFILIATION_REGEX.test(s)
PARTY_AFFILIATION_REGEX(s) ==
    \E i \in 1..Len(s) : \E w \in PartyAbbreviations :
        /\ WordBoundary(s, i)
        /\ MatchAt(s, i, w)
        /\ WordBoundary(s, i + Len(w))
        /\ PartyStateTail(s, i + Len(w))

\* PARTY_WORD_REGEX: /\b(?:democrat|democratic|republican|independent|libertarian|green)\b/i
PartyWords ==
    { <<"d","e","m","o","c","r","a","t">>, <<"d","e","m","o","c","r","a","t","i","c">>,
      <<"r","e","p","u","b","l","i","c","a","n">>,
      <<"i","n","d","e","p","e","n","d","e","n","t">>,
      <<"l","i","b","e","r","t","a","r","i","a","n">>, <<"g","r","e","e","n">> }
\* PARTY_WORD_REGEX.test(s); the i flag compares the ASCII letters caselessly
PARTY_WORD_REGEX(s) ==
    LET folded == [i \in 1..Len(s) |-> IF s[i] \in UpperSet THEN LowerChar(s[i]) ELSE s[i]]
    IN  \E i \in 1..Len(s) : \E w \in PartyWords :
            /\ WordBoundary(s, i)
            /\ MatchAt(folded, i, w)
            /\ WordBoundary(s, i + Len(w))

----------------------------------------------------------------------------
(* The name normaliser.                                                    *)

RECURSIVE ReplaceParenthesised(_, _)
\* text.replace(/\([^)]*\)/g, ' ') from position i on
ReplaceParenthesised(s, i) ==
    IF i > Len(s) THEN <<>>
    ELSE IF s[i] = "(" /\ \E j \in (i+1)..Len(s) : s[j] = ")"
         THEN LET close == CHOOSE j \in (i+1)..Len(s) :
                               s[j] = ")" /\ \A k \in (i+1)..(j-1) : s[k] # ")"
              IN  <<" ">> \o ReplaceParenthesised(s, close + 1)
         ELSE <<s[i]>> \o ReplaceParenthesised(s, i + 1)

\* /\b[RID]-[A-Z]{2}\b/ matches s at position i
PartyStateCodeAt(s, i) ==
    /\ i + 3 <= Len(s)
    /\ WordBoundary(s, i)
    /\ s[i] \in {"R", "I", "D"}
    /\ s[i+1] = "-"
    /\ s[i+2] \in UpperSet
    /\ s[i+3] \in UpperSet
    /\ WordBoundary(s, i + 4)

RECURSIVE ReplacePartyStateCode(_, _)
\* text.replace(/\b[RID]-[A-Z]{2}\b/g, ' ') from position i on
ReplacePartyStateCode(s, i) ==
    IF i > Len(s) THEN <<>>
    ELSE IF PartyStateCodeAt(s, i)
         THEN <<" ">> \o ReplacePartyStateCode(s, i + 4)
         ELSE <<s[i]>> \o ReplacePartyStateCode(s, i + 1)

\* text.normalize('NFD').replace(/[\u0300-\u036f]/g, ''): a precomposed
\* letter decomposes into its base letter and combining marks, which go
stripAccents(s) ==
    [i \in 1..Len(s) |-> IF s[i] = "e_acute" THEN "e"
                         ELSE IF s[i] = "E_ACUTE" THEN "E"
                         ELSE s[i]]

\* normalized.replace(/[^A-Za-z\s'-]/g, ' ')
cleanNonLetters(s) ==
    [i \in 1..Len(s) |->
        IF s[i] \in AsciiLetters \cup Whitespace \cup {"'", "-"} THEN s[i] ELSE " "]

LongerThanOne(token) == Len(token) > 1
\* NotTitleOrSuffix with the name suffixes let through
NotTitleOrSuffix_KeepsSuffixes(token) == token \notin NAME_TITLE_TOKENS
NotTitleOrSuffix(token) ==
    token \notin NAME_TITLE_TOKENS /\ token \notin NAME_SUFFIX_TOKENS

\* function stripTrailingLocationTokens(tokens)
stripTrailingLocationTokens(tokens) ==
    LET hits == { index \in 1..Len(tokens) :
                    /\ tokens[index] \in LOCATION_KEYWORDS
                    /\ index < Len(tokens)
                    /\ \A j \in (index+1)..Len(tokens) : tokens[j] \in LOCATION_TOKENS }
    IN  IF hits = {} THEN tokens
        ELSE LET index == CHOOSE i \in hits : \A j \in hits : i <= j
             IN  SubSeq(tokens, 1, index - 1)

\* the token list normaliseNameKey hands to stripTrailingLocationTokens
nameParts(rawName) ==
    LET text1      == ReplaceParenthesised(rawName, 1)
        text2      == ReplacePartyStateCode(text1, 1)
        normalized == stripAccents(text2)
        cleaned    == cleanNonLetters(normalized)
    IN  SelectSeq(SelectSeq(splitWhitespace(toLowerCase(cleaned)), LongerThanOne),
                  NotTitleOrSuffix)

\* function normaliseNameKey(rawName)
normaliseNameKey(rawName) ==
    IF rawName = <<>> \/ ~IsString(rawName) THEN <<>>
    ELSE join(stripTrailingLocationTokens(nameParts(rawName)), <<" ">>)

\* function nameToKey(name)
nameToKey(name) ==
    IF name = <<>> THEN <<>> ELSE trim(CollapseFrom(toLowerCase(name), 1))

\* containsNonNameTokens with tokens.every in place of tokens.some
containsNonNameTokens_Every(tokens) ==
    \A i \in DOMAIN tokens : tokens[i] \in NON_NAME_TOKENS

\* function containsNonNameTokens(tokens)
containsNonNameTokens(tokens) == \E i \in DOMAIN tokens : tokens[i] \in NON_NAME_TOKENS

\* /\([A-Z]{2}\)/.test(s)
ParenthesisedStateCode(s) ==
    \E i \in 1..Len(s) :
        /\ i + 3 <= Len(s)
        /\ s[i] = "(" /\ s[i+1] \in UpperSet /\ s[i+2] \in UpperSet /\ s[i+3] = ")"

\* containsPartyAffiliation without the test of PARTY_AFFILIATION_REGEX
containsPartyAffiliation_WordsOnly(text) ==
    IF text = <<>> \/ ~IsString(text) THEN FALSE
    ELSE PARTY_WORD_REGEX(text) /\ ParenthesisedStateCode(toUpperCase(text))

\* function containsPartyAffiliation(text)
containsPartyAffiliation(text) ==
    IF text = <<>> \/ ~IsString(text) THEN FALSE
    ELSE \/ PARTY_AFFILIATION_REGEX(toUpperCase(text))
         \/ PARTY_WORD_REGEX(text) /\ ParenthesisedStateCode(toUpperCase(text))

\* hasFirstAndLastName with parts.length < 1 in place of parts.length < 2
hasFirstAndLastName_OneTokenEnough(name) ==
    LET normalised == normaliseNameKey(name)
        parts == splitSpaces(normalised)
    IN  IF normalised = <<>> THEN FALSE
        ELSE IF containsNonNameTokens(parts) THEN FALSE
        ELSE IF Len(parts) < 1 THEN FALSE
        ELSE Len(parts[1]) > 1 /\ Len(parts[Len(parts)]) > 1

\* function hasFirstAndLastName(name)
hasFirstAndLastName(name) ==
    LET normalised == normaliseNameKey(name)
        parts == splitSpaces(normalised)
    IN  IF normalised = <<>> THEN FALSE
        ELSE IF containsNonNameTokens(parts) THEN FALSE
        ELSE IF Len(parts) < 2 THEN FALSE
        ELSE Len(parts[1]) > 1 /\ Len(parts[Len(parts)]) > 1

\* shouldIncludeWitness with the ceiling compared by >= in place of >
shouldIncludeWitness_CeilingOffByOne(entry, excludedKeys) ==
    IF entry.count >= MAX_HEARING_COUNT_PER_WITNESS THEN FALSE
    ELSE IF ~hasFirstAndLastName(entry.name) THEN FALSE
    ELSE IF containsPartyAffiliation(entry.name) THEN FALSE
    ELSE LET normalised == normaliseNameKey(entry.name)
         IN  ~(normalised # <<>> /\ normalised \in excludedKeys)

\* shouldIncludeWitness without the call of hasFirstAndLastName
shouldIncludeWitness_SkipsNameRule(entry, excludedKeys) ==
    IF entry.count > MAX_HEARING_COUNT_PER_WITNESS THEN FALSE
    ELSE IF containsPartyAffiliation(entry.name) THEN FALSE
    ELSE LET normalised == normaliseNameKey(entry.name)
         IN  ~(normalised # <<>> /\ normalised \in excludedKeys)

\* shouldIncludeWitness without the test of the hearing count
shouldIncludeWitness_NoCeiling(entry, excludedKeys) ==
    IF ~hasFirstAndLastName(entry.name) THEN FALSE
    ELSE IF containsPartyAffiliation(entry.name) THEN FALSE
    ELSE LET normalised == normaliseNameKey(entry.name)
         IN  ~(normalised # <<>> /\ normalised \in excludedKeys)

\* function shouldIncludeWitness(entry, excludedLegislatorKeys)
shouldIncludeWitness(entry, excludedKeys) ==
    IF entry.count > MAX_HEARING_COUNT_PER_WITNESS THEN FALSE
    ELSE IF ~hasFirstAndLastName(entry.name) THEN FALSE
    ELSE IF containsPartyAffiliation(entry.name) THEN FALSE
    ELSE LET normalised == normaliseNameKey(entry.name)
         IN  ~(normalised # <<>> /\ normalised \in excludedKeys)

----------------------------------------------------------------------------
(* Loading the exclusion list and the hearings.                            *)

\* excludedKeysOfItem with the item added as it is written, not normalised
excludedKeysOfItem_NotNormalised(item) ==
    IF ~IsString(item) \/ item = <<>> THEN {} ELSE {item}

\* loadExcludedLegislatorKeys: the keys one payload item adds
excludedKeysOfItem(item) ==
    IF ~IsString(item) THEN {}
    ELSE LET normalised == normaliseNameKey(item)
         IN  IF normalised = <<>> THEN {}
             ELSE {normalised}
                  \cup (IF includesChar(normalised, "-")
                        THEN {replaceChar(normalised, "-", <<" ">>)} ELSE {})
                  \cup (IF includesChar(normalised, "'")
                        THEN {replaceChar(normalised, "'", <<>>)} ELSE {})

\* loadExcludedLegislatorKeys without the test of Array.isArray: the names
\* a payload holds are taken whatever its shape
loadExcludedLegislatorKeys_NoArrayTest(payload) ==
    UNION { excludedKeysOfItem(payload.items[i]) : i \in DOMAIN payload.items }

\* function loadExcludedLegislatorKeys: what the promise resolves to.  A
\* failed fetch or a body that is not JSON ends in the catch handler.
loadExcludedLegislatorKeys(payload) ==
    IF payload.kind # "array" THEN {}
    ELSE UNION { excludedKeysOfItem(payload.items[i]) : i \in DOMAIN payload.items }

\* attachWitnessesToHearings, first loop: the names pushed to hearing id
pushedWitnesses(id, witnessRows) ==
    LET Mine(row) == row.hearing_id = id /\ trim(row.name) # <<>>
        rows == SelectSeq(witnessRows, Mine)
    IN  [i \in 1..Len(rows) |-> trim(rows[i].name)]

RECURSIVE uniqueNames(_, _, _)
\* attachWitnessesToHearings, second loop: the names kept from index on
uniqueNames(names, index, seen) ==
    IF index > Len(names) THEN <<>>
    ELSE LET key == nameToKey(names[index])
         IN  IF key = <<>> \/ key \in seen
             THEN uniqueNames(names, index + 1, seen)
             ELSE <<names[index]>> \o uniqueNames(names, index + 1, seen \cup {key})

\* a Date is the hour it stands for, counted from a fixed day; null and a
\* Date are told apart by isNull
NullDate == [isNull |-> TRUE, time |-> 0]
DateAt(hour) == [isNull |-> FALSE, time |-> hour]
DigitChars == <<"0","1","2","3","4","5","6","7","8","9">>
RECURSIVE DigitsValue(_, _)
\* the number a string of digits writes, read up to position n
DigitsValue(s, n) ==
    IF n = 0 THEN 0 ELSE 10 * DigitsValue(s, n - 1) + (LetterIndex(s[n], DigitChars) - 1)
\* Number(text): NaN unless the trimmed text is empty or made of digits (the
\* signs, points and exponents Number also reads are not among the inputs)
Number(text) ==
    LET t == trim(text)
    IN  IF \A i \in DOMAIN t : t[i] \in Digits
        THEN [isNaN |-> FALSE, value |-> DigitsValue(t, Len(t))]
        ELSE [isNaN |-> TRUE, value |-> 0]
\* the day new Date(year, month - 1, day) falls on, counted with 31 places
\* for every month, which orders the days of the calendar as they are
DayNumber(year, month, day) == (year * 12 + (month - 1)) * 31 + day
\* new Date(year, month - 1, day): midnight of that day in local time
LocalMidnight(year, month, day) == DateAt(DayNumber(year, month, day) * 24 - timezoneOffset)

\* function parseIsoDate(value)
parseIsoDate(value) ==
    IF value = <<>> THEN NullDate
    ELSE IF ~(/\ Len(value) = 10
              /\ value[5] = "-" /\ value[8] = "-"
              /\ \A i \in {1, 2, 3, 4, 6, 7, 9, 10} : value[i] \in Digits)
         THEN NullDate
    ELSE LocalMidnight(DigitsValue(SubSeq(value, 1, 4), 4),
                       DigitsValue(SubSeq(value, 6, 7), 2),
                       DigitsValue(SubSeq(value, 9, 10), 2))

\* CSV explorer, function parseDateString(value)
parseDateString(value) ==
    IF value = <<>> THEN NullDate
    ELSE LET parts == SplitFrom(value, {"/"}, 1, <<>>)
         IN  IF Len(parts) < 3 THEN NullDate
             ELSE LET month == Number(parts[1])
                      day == Number(parts[2])
                      numeric == Number(parts[3])
                      year == IF Len(parts[3]) = 2
                              THEN IF numeric.isNaN THEN numeric
                                   ELSE IF numeric.value >= 70
                                        THEN [numeric EXCEPT !.value = 1900 + @]
                                        ELSE [numeric EXCEPT !.value = 2000 + @]
                              ELSE numeric
                  IN  IF month.isNaN \/ day.isNaN THEN NullDate
                      ELSE IF year.isNaN \/ year.value = 0 THEN NullDate
                      ELSE LocalMidnight(year.value, month.value, day.value)

\* function parseTagColumn(raw), for a column that holds a JSON array: its
\* items trimmed, the empty ones left out
parseTagColumn(raw) ==
    LET trimmed == [i \in DOMAIN raw |-> trim(raw[i])]
    IN  SelectSeq(trimmed, NonEmpty)

\* function buildHearingsFromDatabase(db); chamber cells hold 'house',
\* 'senate' or nothing
buildHearingsFromDatabase(hearingRows, witnessRows) ==
    [i \in 1..Len(hearingRows) |->
        LET names == uniqueNames(pushedWitnesses(hearingRows[i].id, witnessRows), 1, {})
        IN  [id          |-> hearingRows[i].id,
             chamber     |-> hearingRows[i].chamber,
             committee   |-> trim(hearingRows[i].committee),
             tags        |-> parseTagColumn(hearingRows[i].tags),
             dateObj     |-> parseIsoDate(hearingRows[i].date),
             witnesses   |-> names,
             witnessKeys |-> [j \in 1..Len(names) |-> nameToKey(names[j])]]]

\* CSV explorer, function rowToHearing(row, columns), for a row that is not
\* blank; witnesses is normalizeWitnesses(record.Witnesses): the trimmed,
\* non-empty pieces of the cell
rowToHearing(row) ==
    [committee   |-> trim(row.Committee),
     tags        |-> parseTagColumn(row.Tags),
     dateObj     |-> parseDateString(trim(row.Date)),
     witnesses   |-> row.witnesses,
     witnessKeys |-> [j \in 1..Len(row.witnesses) |-> nameToKey(row.witnesses[j])]]

----------------------------------------------------------------------------
(* The aggregator.  A JavaScript Map is a sequence of entries in insertion *)
(* order; an entry's hearings are positions in state.hearings.             *)

MapIndex(m, key) ==
    IF \E i \in DOMAIN m : m[i].key = key
    THEN CHOOSE i \in DOMAIN m : m[i].key = key
    ELSE 0
MapKeys(m) == { m[i].key : i \in DOMAIN m }
MapGet(m, key) == m[MapIndex(m, key)]

\* skipWitness without the look into seenDuringHearing
skipWitness_IgnoresSeen(key, seenDuringHearing) == key = <<>>

\* buildWitnessMap: if (!key || seenDuringHearing.has(key)) return;
skipWitness(key, seenDuringHearing) == key = <<>> \/ key \in seenDuringHearing

\* foldAppearance with entry.name.length <= name.length: a tie takes the
\* later name
foldAppearance_TieTakesLater(m, key, name, hearing, position) ==
    LET at == MapIndex(m, key)
        entry == IF at # 0 THEN m[at]
                 ELSE [key |-> key, name |-> name, hearings |-> <<>>, count |-> 0,
                       chambers |-> {}, isDualChamber |-> FALSE]
        named == IF entry.name = <<>> \/ Len(entry.name) <= Len(name)
                 THEN [entry EXCEPT !.name = name] ELSE entry
        updated == [named EXCEPT
                      !.hearings = Append(@, position),
                      !.count = @ + 1,
                      !.chambers = IF explorer = "db" /\ hearing.chamber # ""
                                   THEN @ \cup {hearing.chamber} ELSE @]
    IN  IF at # 0 THEN [m EXCEPT ![at] = updated] ELSE Append(m, updated)

\* foldAppearance with entry.hearings.unshift(hearing) in place of push
foldAppearance_Unshifts(m, key, name, hearing, position) ==
    LET at == MapIndex(m, key)
        entry == IF at # 0 THEN m[at]
                 ELSE [key |-> key, name |-> name, hearings |-> <<>>, count |-> 0,
                       chambers |-> {}, isDualChamber |-> FALSE]
        named == IF entry.name = <<>> \/ Len(entry.name) < Len(name)
                 THEN [entry EXCEPT !.name = name] ELSE entry
        updated == [named EXCEPT
                      !.hearings = <<position>> \o @,
                      !.count = @ + 1,
                      !.chambers = IF explorer = "db" /\ hearing.chamber # ""
                                   THEN @ \cup {hearing.chamber} ELSE @]
    IN  IF at # 0 THEN [m EXCEPT ![at] = updated] ELSE Append(m, updated)

\* buildWitnessMap: the map after one appearance is folded in
foldAppearance(m, key, name, hearing, position) ==
    LET at == MapIndex(m, key)
        entry == IF at # 0 THEN m[at]
                 ELSE [key |-> key, name |-> name, hearings |-> <<>>, count |-> 0,
                       chambers |-> {}, isDualChamber |-> FALSE]
        named == IF entry.name = <<>> \/ Len(entry.name) < Len(name)
                 THEN [entry EXCEPT !.name = name] ELSE entry
        updated == [named EXCEPT
                      !.hearings = Append(@, position),
                      !.count = @ + 1,
                      !.chambers = IF explorer = "db" /\ hearing.chamber # ""
                                   THEN @ \cup {hearing.chamber} ELSE @]
    IN  IF at # 0 THEN [m EXCEPT ![at] = updated] ELSE Append(m, updated)

RECURSIVE foldWitnesses(_, _, _, _, _)
\* buildWitnessMap: hearing.witnesses.forEach from index on
foldWitnesses(m, seenDuringHearing, hearing, position, index) ==
    IF index > Len(hearing.witnesses) THEN m
    ELSE LET name == hearing.witnesses[index]
             key == hearing.witnessKeys[index]
         IN  IF skipWitness(key, seenDuringHearing)
             THEN foldWitnesses(m, seenDuringHearing, hearing, position, index + 1)
             ELSE foldWitnesses(foldAppearance(m, key, name, hearing, position),
                                seenDuringHearing \cup {key}, hearing, position, index + 1)

\* markDualChamber with chambers.size > 2 in place of >= 2
markDualChamber_MoreThanTwo(m) ==
    [i \in DOMAIN m |-> [m[i] EXCEPT !.isDualChamber = Cardinality(m[i].chambers) > 2]]

\* buildWitnessMap: map.forEach(entry => entry.isDualChamber = ...)
markDualChamber(m) ==
    [i \in DOMAIN m |-> [m[i] EXCEPT !.isDualChamber = Cardinality(m[i].chambers) >= 2]]

\* buildWitnessMap: the filtered map it returns
filterWitnesses(m, excludedKeys) ==
    LET Keep(entry) == shouldIncludeWitness(entry, excludedKeys)
    IN  SelectSeq(m, Keep)

\* localeCompare(..., { sensitivity: 'base' }): the primary weight of a
\* character in the root collation: white space, then punctuation, then
\* digits, then letters, case and accents ignored
CollationPunctuation == <<"\t", "\n", "\r", " ", "_", "-", "en_dash", ".", "'", "(", ")">>
PrimaryWeight(c) ==
    LET base == IF LowerChar(c) = "e_acute" THEN "e" ELSE LowerChar(c)
    IN  IF base \in LowerSet THEN 100 + LetterIndex(base, LowerLetters)
        ELSE IF base \in Digits THEN 50
        ELSE IF base \in Range(CollationPunctuation)
             THEN LetterIndex(base, CollationPunctuation)
        ELSE 40

RECURSIVE localeCompare(_, _, _)
\* a.localeCompare(b, undefined, { sensitivity: 'base' }) from position i on
localeCompare(a, b, i) ==
    IF i > Len(a) /\ i > Len(b) THEN 0
    ELSE IF i > Len(a) THEN -1
    ELSE IF i > Len(b) THEN 1
    ELSE IF PrimaryWeight(a[i]) < PrimaryWeight(b[i]) THEN -1
    ELSE IF PrimaryWeight(a[i]) > PrimaryWeight(b[i]) THEN 1
    ELSE localeCompare(a, b, i + 1)

\* sortWitnesses with a.count - b.count: the counts ascending
sortWitnesses_CountAscending(a, b) ==
    IF b.count # a.count THEN a.count - b.count
    ELSE localeCompare(a.name, b.name, 1)

\* function sortWitnesses(a, b)
sortWitnesses(a, b) ==
    IF b.count # a.count THEN b.count - a.count
    ELSE localeCompare(a.name, b.name, 1)

RECURSIVE sortFrom(_, _, _)
\* Array.prototype.sort(sortWitnesses), which is stable: each element goes
\* behind the elements that do not sort after it
sortFrom(list, index, sorted) ==
    IF index > Len(list) THEN sorted
    ELSE LET x == list[index]
             before == { i \in DOMAIN sorted : sortWitnesses(sorted[i], x) <= 0 }
             n == Cardinality(before)
         IN  sortFrom(list, index + 1,
                      SubSeq(sorted, 1, n) \o <<x>> \o SubSeq(sorted, n + 1, Len(sorted)))


----------------------------------------------------------------------------
(* The witness list and the hearings table.                                *)

\* String.prototype.includes
includes(s, sub) ==
    \E i \in 0..(Len(s) - Len(sub)) : SubSeq(s, i + 1, i + Len(sub)) = sub

\* 'all', the value of the first option of a select
AllOption == <<"a","l","l">>

\* new Date(value) for the value of a date input, 'YYYY-MM-DD': midnight of
\* that day in UTC
UtcMidnight(value) ==
    DateAt(DayNumber(DigitsValue(SubSeq(value, 1, 4), 4),
                     DigitsValue(SubSeq(value, 6, 7), 2),
                     DigitsValue(SubSeq(value, 9, 10), 2)) * 24)
\* event.target.value ? new Date(event.target.value) : null
dateOfInput(value) == IF value = <<>> THEN NullDate ELSE UtcMidnight(value)

\* renderWitnessList: const match, for one witness
witnessMatches(witness, f) ==
    LET query == toLowerCase(f.witnessQuery)
    IN  /\ ~f.dualChamberOnly \/ witness.isDualChamber
        /\ query = <<>> \/ includes(toLowerCase(witness.name), query)

\* renderWitnessList without its last test, for a selected witness that is
\* not shown
renderWitnessList_KeepsHiddenSelection(selected, f, sorted, elements) ==
    IF explorer = "csv"
    THEN LET Shown(witness) == witnessMatches(witness, f)
             matching == SelectSeq(sorted, Shown)
         IN  [selectedWitnessKey |-> selected, selectionChanged |-> FALSE,
              witnessElements |-> { matching[i].key : i \in DOMAIN matching }]
    ELSE IF sorted = <<>>
    THEN [selectedWitnessKey |-> JSNull, selectionChanged |-> selected # JSNull,
          witnessElements |-> {}]
    ELSE [selectedWitnessKey |-> selected, selectionChanged |-> FALSE,
          witnessElements |-> IF elements = {}
                              THEN { sorted[i].key : i \in DOMAIN sorted }
                              ELSE elements]

\* function renderWitnessList(): what it leaves in state.selectedWitnessKey
\* and state.witnessElements, and the selectionChanged it returns.  The CSV
\* explorer builds a button for every witness that matches the query, keeps
\* the selection and returns nothing.
renderWitnessList(selected, f, sorted, elements) ==
    IF explorer = "csv"
    THEN LET Shown(witness) == witnessMatches(witness, f)
             matching == SelectSeq(sorted, Shown)
         IN  [selectedWitnessKey |-> selected, selectionChanged |-> FALSE,
              witnessElements |-> { matching[i].key : i \in DOMAIN matching }]
    ELSE IF sorted = <<>>
    THEN [selectedWitnessKey |-> JSNull, selectionChanged |-> selected # JSNull,
          witnessElements |-> {}]
    ELSE LET buttons == IF elements = {} THEN { sorted[i].key : i \in DOMAIN sorted }
                        ELSE elements
             selectedVisible ==
                \E i \in DOMAIN sorted :
                    /\ sorted[i].key \in buttons
                    /\ witnessMatches(sorted[i], f)
                    /\ selected = sorted[i].key
         IN  IF selected # JSNull /\ ~selectedVisible
             THEN [selectedWitnessKey |-> JSNull, selectionChanged |-> TRUE,
                   witnessElements |-> buttons]
             ELSE [selectedWitnessKey |-> selected, selectionChanged |-> FALSE,
                   witnessElements |-> buttons]

\* passesFilters that lets no hearing without a date through a date filter
passesFilters_NeedsDate(hearing, f) ==
    IF f.committee # AllOption /\ hearing.committee # f.committee THEN FALSE
    ELSE IF f.tag # AllOption /\ f.tag \notin Range(hearing.tags) THEN FALSE
    ELSE IF ~f.startDate.isNull
            /\ (hearing.dateObj.isNull \/ hearing.dateObj.time < f.startDate.time)
         THEN FALSE
    ELSE IF ~f.endDate.isNull
            /\ (hearing.dateObj.isNull \/ hearing.dateObj.time > f.endDate.time)
         THEN FALSE
    ELSE TRUE

\* applyFilters: the callback of hearings.filter (the two explorers have the
\* same)
passesFilters(hearing, f) ==
    IF f.committee # AllOption /\ hearing.committee # f.committee THEN FALSE
    ELSE IF f.tag # AllOption /\ f.tag \notin Range(hearing.tags) THEN FALSE
    ELSE IF ~f.startDate.isNull /\ ~hearing.dateObj.isNull
            /\ hearing.dateObj.time < f.startDate.time
         THEN FALSE
    ELSE IF ~f.endDate.isNull /\ ~hearing.dateObj.isNull
            /\ hearing.dateObj.time > f.endDate.time
         THEN FALSE
    ELSE TRUE

\* function applyFilters(): the hearings it leaves in state.filteredHearings,
\* by their positions in state.hearings; the order sortHearings puts them in
\* is not kept
applyFilters(hs, f, selected) ==
    { p \in DOMAIN hs :
        /\ passesFilters(hs[p], f)
        /\ selected = JSNull \/ selected \in Range(hs[p].witnessKeys) }

\* function updateSort(key): the new state.sort
updateSort(current, key) ==
    IF current.key = key
    THEN [current EXCEPT !.direction = IF @ = "asc" THEN "desc" ELSE "asc"]
    ELSE [key |-> key, direction |-> IF key = "date" THEN "desc" ELSE "asc"]

RECURSIVE foldHearings(_, _, _)
\* buildWitnessMap: hearings.forEach from position on
foldHearings(m, hs, position) ==
    IF position > Len(hs) THEN m
    ELSE foldHearings(foldWitnesses(m, {}, hs[position], position, 1), hs, position + 1)

\* buildWitnessMap with its map kept between calls, not made anew
buildWitnessMap_KeepsItsMap(hs, excludedKeys) ==
    LET folded == foldHearings(map, hs, 1)
    IN  IF explorer = "db"
        THEN filterWitnesses(markDualChamber(folded), excludedKeys)
        ELSE folded

\* function buildWitnessMap(hearings, options), as one call
buildWitnessMap(hs, excludedKeys) ==
    LET folded == foldHearings(<<>>, hs, 1)
    IN  IF explorer = "db"
        THEN filterWitnesses(markDualChamber(folded), excludedKeys)
        ELSE folded
----------------------------------------------------------------------------
(* Inputs.                                                                 *)

MaxHearings == 2
MaxRows == 3
MaxFilterWitnesses == 1
MaxWords == 4
MaxDecorations == 1

\* "Dr. Jane A. Doe"
DrJaneADoe ==
    <<"D","r","."," ","J","a","n","e"," ","A","."," ","D","o","e">>
\* "Jane Doe"
JaneDoe ==
    <<"J","a","n","e"," ","D","o","e">>
\* "JANE  DOE"
JANE__DOE ==
    <<"J","A","N","E"," "," ","D","O","E">>
\* "John Smith"
JohnSmith ==
    <<"J","o","h","n"," ","S","m","i","t","h">>
\* "Rep. John Smith (R-TX)"
RepJohnSmithRTX ==
    <<"R","e","p","."," ","J","o","h","n"," ","S","m","i","t","h"," ","(","R","-","T","X",
    ")">>
\* "Mary Smith-Jones"
MarySmithHyphenJones ==
    <<"M","a","r","y"," ","S","m","i","t","h","-","J","o","n","e","s">>
\* "Mary Smith Jones"
MarySmithJones ==
    <<"M","a","r","y"," ","S","m","i","t","h"," ","J","o","n","e","s">>
\* "Sean O'Brien"
SeanOApostropheBrien ==
    <<"S","e","a","n"," ","O","'","B","r","i","e","n">>
\* "Sean OBrien"
SeanOBrien ==
    <<"S","e","a","n"," ","O","B","r","i","e","n">>
\* "Zelensky"
Zelensky ==
    <<"Z","e","l","e","n","s","k","y">>
\* "Full hearing transcript is available here"
FullHearingTranscript ==
    <<"F","u","l","l"," ","h","e","a","r","i","n","g"," ","t","r","a","n","s","c","r","i",
    "p","t"," ","i","s"," ","a","v","a","i","l","a","b","l","e"," ","h","e","r","e">>
\* "Hon. Jr."
HonJr ==
    <<"H","o","n","."," ","J","r",".">>

\* "JANE DOE"
JANE_DOE ==
    <<"J","A","N","E"," ","D","O","E">>
\* "Dr. J. Smith Jr. of Texas"
DrJSmithJrOfTexas ==
    <<"D","r","."," ","J","."," ","S","m","i","t","h"," ","J","r","."," ","o","f"," ",
    "T","e","x","a","s">>
\* "John Smith, Republican (TX)"
JohnSmithRepublicanTX ==
    <<"J","o","h","n"," ","S","m","i","t","h",","," ","R","e","p","u","b","l","i","c",
    "a","n"," ","(","T","X",")">>

\* raw witness names of the aggregation inputs: three spellings of one
\* person, two of them with the same nameToKey
AggNames == { DrJaneADoe, JaneDoe, JANE__DOE }
\* raw witness names of the display-name inputs: three spellings with one
\* nameToKey, two of them of one length
FoldNames == { JaneDoe, JANE_DOE, JANE__DOE }
\* raw witness names of the filter inputs
FilterNames ==
    { DrJaneADoe, JohnSmith, RepJohnSmithRTX, MarySmithHyphenJones, MarySmithJones,
      SeanOApostropheBrien, SeanOBrien, Zelensky, FullHearingTranscript, HonJr,
      DrJSmithJrOfTexas, JohnSmithRepublicanTX }
\* items of excluded_legislator_keys.json
ExcludedLists ==
    { <<>>, <<JohnSmith>>, <<MarySmithJones>>, <<MarySmithHyphenJones>>, <<SeanOBrien>>,
      <<JSNull, HonJr, JohnSmith>> }
Chambers == { "house", "senate" }

SeqsUpTo(S, n) == UNION { [1..k -> S] : k \in 0..n }

\* the rows of table witnesses, in the order of ORDER BY hearing_id, id
WitnessRowLists(names, maxId) ==
    { rows \in SeqsUpTo([hearing_id : 1..maxId, name : names], MaxRows) :
        \A i \in 1..(Len(rows) - 1) : rows[i].hearing_id <= rows[i+1].hearing_id }

\* the ids of n hearings in the order of ORDER BY date, id
HearingIdOrders(n) == { [i \in 1..n |-> i], [i \in 1..n |-> n + 1 - i] }

NamesOfHearing(rows, id) ==
    LET Mine(row) == row.hearing_id = id
        mine == SelectSeq(rows, Mine)
    IN  [i \in 1..Len(mine) |-> mine[i].name]

\* what the fetch of excluded_legislator_keys.json can yield: a failed
\* request, a JSON value that is no array (an object that holds the name
\* 'John Smith'), an array of items
ExcludedPayloads ==
    { [kind |-> "http_error", items |-> <<>>],
      [kind |-> "not_array", items |-> <<JohnSmith>>] }
    \cup { [kind |-> "array", items |-> items] : items \in ExcludedLists }

NoKeys == [settled |-> FALSE, keys |-> {}]

\* "Judiciary"
Judiciary == <<"J","u","d","i","c","i","a","r","y">>
\* "2025-01-15"
Iso_2025_01_15 == <<"2","0","2","5","-","0","1","-","1","5">>
\* "1/15/2025"
Us_1_15_2025 == <<"1","/","1","5","/","2","0","2","5">>
\* a row of table hearings: the columns the explorer filters by
HearingRow(id, chamber) ==
    [id |-> id, chamber |-> chamber, committee |-> Judiciary, tags |-> <<>>,
     date |-> Iso_2025_01_15]
\* a data row of the CSV file, by column, with the pieces of its Witnesses
\* cell
CsvRow(witnesses) ==
    [Committee |-> Judiciary, Tags |-> <<>>, Date |-> Us_1_15_2025,
     witnesses |-> witnesses]

\* const state = { ... }
DefaultFilters ==
    [witnessQuery |-> <<>>, committee |-> <<"a","l","l">>, tag |-> <<"a","l","l">>,
     startDate |-> NullDate, endDate |-> NullDate, dualChamberOnly |-> FALSE]
DefaultSort == [key |-> "date", direction |-> "desc"]
NotRerun == [done |-> FALSE, witnessMap |-> <<>>, sortedWitnesses |-> <<>>]

AppStart ==
    /\ pc = "created"
    /\ excludedLegislatorKeys = NoKeys
    /\ hearings = <<>>
    /\ foldIndex = 0
    /\ map = <<>>
    /\ witnessMap = <<>>
    /\ sortedWitnesses = <<>>
    /\ filters = DefaultFilters
    /\ selectedWitnessKey = JSNull
    /\ filteredHearings = {}
    /\ sort = DefaultSort
    /\ witnessElements = {}
    /\ rerun = NotRerun

NormIdle ==
    /\ baseName = <<>>
    /\ variantName = <<>>
    /\ decorations = 0
    /\ normPhase = "idle"
    /\ normBase = <<>>
    /\ normVariant = <<>>
    /\ normTwice = <<>>
    /\ stripIn = <<>>
    /\ stripOut = <<>>

\* no call of the two loaders, of attachWitnessesToHearings or of parseCSV
\* is looked at on its own
PromisesIdle ==
    /\ sqlJsInstancePromise = 0
    /\ excludedLegislatorKeysPromise = 0
    /\ promises = <<>>
    /\ loadsStarted = [sqlJs |-> 0, excludedKeys |-> 0]
    /\ returnedPromises = <<>>
AttachIdle ==
    /\ attachRows = <<>>
    /\ attached = [done |-> FALSE, hearings |-> <<>>]
CsvIdle ==
    /\ csvText = <<>>
    /\ csvParsed = [done |-> FALSE, rows |-> <<>>]
\* an explorer with nothing to load, for the functions looked at on their own
ExplorerIdle ==
    /\ explorer = "db"
    /\ dbHearingRows = <<>>
    /\ dbWitnessRows = <<>>
    /\ csvRows = <<>>
    /\ excludedPayload = [kind |-> "array", items |-> <<>>]
    /\ AppStart
    /\ timezoneOffset = 0
FunctionsIdle == NormIdle /\ PromisesIdle /\ AttachIdle /\ CsvIdle

\* the module state of either explorer when its script has run, over
\* databases and CSV files of up to MaxHearings hearings and MaxRows witnesses
Init ==
    /\ AppStart
    /\ FunctionsIdle
    /\ timezoneOffset = 0
    /\ \E n \in 0..MaxHearings : \E rows \in WitnessRowLists(AggNames, MaxHearings) :
        \/ /\ explorer = "db"
           /\ \E ids \in HearingIdOrders(n) : \E ch \in [1..n -> Chambers] :
                dbHearingRows = [i \in 1..n |-> HearingRow(ids[i], ch[i])]
           /\ dbWitnessRows = rows
           /\ csvRows = <<>>
           /\ excludedPayload = [kind |-> "array", items |-> <<>>]
        \/ /\ explorer = "csv"
           /\ dbHearingRows = <<>>
           /\ dbWitnessRows = <<>>
           /\ csvRows = [i \in 1..n |-> CsvRow(NamesOfHearing(rows, i))]
           /\ excludedPayload = [kind |-> "http_error", items |-> <<>>]

\* either explorer over spellings of one name, for the display name
InitFold ==
    /\ AppStart
    /\ FunctionsIdle
    /\ timezoneOffset = 0
    /\ \E n \in 0..MaxHearings : \E rows \in WitnessRowLists(FoldNames, MaxHearings) :
        \/ /\ explorer = "db"
           /\ \E ids \in HearingIdOrders(n) : \E ch \in [1..n -> Chambers] :
                dbHearingRows = [i \in 1..n |-> HearingRow(ids[i], ch[i])]
           /\ dbWitnessRows = rows
           /\ csvRows = <<>>
           /\ excludedPayload = [kind |-> "array", items |-> <<>>]
        \/ /\ explorer = "csv"
           /\ dbHearingRows = <<>>
           /\ dbWitnessRows = <<>>
           /\ csvRows = [i \in 1..n |-> CsvRow(NamesOfHearing(rows, i))]
           /\ excludedPayload = [kind |-> "http_error", items |-> <<>>]

\* the database explorer over one witness list that copies hearings share,
\* with each exclusion list
InitFilter ==
    /\ AppStart
    /\ FunctionsIdle
    /\ timezoneOffset = 0
    /\ explorer = "db"
    /\ csvRows = <<>>
    /\ excludedPayload \in ExcludedPayloads
    /\ \E copies \in { 1, MAX_HEARING_COUNT_PER_WITNESS, MAX_HEARING_COUNT_PER_WITNESS + 1 } :
       \E names \in SeqsUpTo(FilterNames, MaxFilterWitnesses) \ { <<>> } :
        /\ dbHearingRows =
             [i \in 1..copies |->
                HearingRow(i, IF i % 2 = 1 THEN "house" ELSE "senate")]
        /\ dbWitnessRows =
             [k \in 1..(copies * Len(names)) |->
                [hearing_id |-> ((k - 1) \div Len(names)) + 1,
                 name |-> names[((k - 1) % Len(names)) + 1]]]

----------------------------------------------------------------------------
(* initialise(), in the steps its awaits cut it into.                      *)
(* The block after the last await runs to its end without yielding; it is  *)
(* written as LoadHearings, one FoldHearing for each pass of                *)
(* hearings.forEach, and FinishBuild, and pc lets no other action in        *)
(* between them.                                                            *)

\* initialise up to its first await
initialise ==
    /\ pc = "created"
    /\ pc' = "awaiting"
    /\ UNCHANGED <<explorer, dbHearingRows, dbWitnessRows, csvRows, excludedPayload,
                   excludedLegislatorKeys, hearings, foldIndex, map, witnessMap,
                   sortedWitnesses,
                   uiVars, functionVars>>

\* excludedLegislatorKeysPromise settles
SettleExcludedKeys ==
    /\ pc = "awaiting"
    /\ explorer = "db"
    /\ ~excludedLegislatorKeys.settled
    /\ excludedLegislatorKeys' =
         [settled |-> TRUE, keys |-> loadExcludedLegislatorKeys(excludedPayload)]
    /\ UNCHANGED <<explorer, pc, dbHearingRows, dbWitnessRows, csvRows, excludedPayload,
                   hearings, foldIndex, map, witnessMap, sortedWitnesses,
                   uiVars, functionVars>>

\* sql.js, the database or the CSV file cannot be loaded: the catch branch
LoadFails ==
    /\ pc = "awaiting"
    /\ pc' = "failed"
    /\ UNCHANGED <<explorer, dbHearingRows, dbWitnessRows, csvRows, excludedPayload,
                   excludedLegislatorKeys, hearings, foldIndex, map, witnessMap,
                   sortedWitnesses,
                   uiVars, functionVars>>

\* the hearings initialise builds once its loads have resolved
LoadedHearings ==
    IF explorer = "db"
    THEN buildHearingsFromDatabase(dbHearingRows, dbWitnessRows)
    ELSE [i \in 1..Len(csvRows) |-> rowToHearing(csvRows[i])]
LoadsResolved ==
    /\ pc = "awaiting"
    /\ explorer = "db" => excludedLegislatorKeys.settled

\* buildWitnessMap after its hearings.forEach: the map returned
finishedMap(m) ==
    IF explorer = "db"
    THEN filterWitnesses(markDualChamber(m), excludedLegislatorKeys.keys)
    ELSE m

\* initialise from the last await to state.hearings = hearings
LoadHearings ==
    /\ LoadsResolved
    /\ IF LoadedHearings = <<>>
       THEN pc' = "no_hearings" /\ UNCHANGED hearings
       ELSE pc' = "folding" /\ hearings' = LoadedHearings
    /\ UNCHANGED <<explorer, dbHearingRows, dbWitnessRows, csvRows, excludedPayload,
                   excludedLegislatorKeys, foldIndex, map, witnessMap, sortedWitnesses,
                   uiVars, functionVars>>

\* a pass that takes the names out of hearing.witnesses as it reads them
FoldHearing_ShiftsWitnesses ==
    /\ pc = "folding"
    /\ foldIndex < Len(hearings)
    /\ map' = foldWitnesses(map, {}, hearings[foldIndex + 1], foldIndex + 1, 1)
    /\ foldIndex' = foldIndex + 1
    /\ hearings' = [hearings EXCEPT ![foldIndex + 1].witnesses = <<>>]
    /\ UNCHANGED <<explorer, pc, dbHearingRows, dbWitnessRows, csvRows, excludedPayload,
                   excludedLegislatorKeys, witnessMap, sortedWitnesses,
                   uiVars, functionVars>>

\* buildWitnessMap: one pass of hearings.forEach
FoldHearing ==
    /\ pc = "folding"
    /\ foldIndex < Len(hearings)
    /\ map' = foldWitnesses(map, {}, hearings[foldIndex + 1], foldIndex + 1, 1)
    /\ foldIndex' = foldIndex + 1
    /\ UNCHANGED <<explorer, pc, dbHearingRows, dbWitnessRows, csvRows, excludedPayload,
                   excludedLegislatorKeys, hearings, witnessMap, sortedWitnesses,
                   uiVars, functionVars>>

\* buildWitnessMap from map.forEach to its return, and initialise to its end
FinishBuild ==
    /\ pc = "folding"
    /\ foldIndex = Len(hearings)
    /\ map' = IF explorer = "db" THEN markDualChamber(map) ELSE map
    /\ witnessMap' = finishedMap(map)
    /\ sortedWitnesses' = sortFrom(finishedMap(map), 1, <<>>)
    /\ LET rendered == renderWitnessList(selectedWitnessKey, filters,
                                         sortFrom(finishedMap(map), 1, <<>>), {})
       IN  /\ selectedWitnessKey' = rendered.selectedWitnessKey
           /\ witnessElements' = rendered.witnessElements
           /\ filteredHearings' = applyFilters(hearings, filters,
                                               rendered.selectedWitnessKey)
    /\ pc' = "ready"
    /\ UNCHANGED <<explorer, dbHearingRows, dbWitnessRows, csvRows, excludedPayload,
                   excludedLegislatorKeys, hearings, foldIndex, timezoneOffset,
                   filters, sort, rerun, functionVars>>

Next ==
    \/ initialise
    \/ SettleExcludedKeys
    \/ LoadFails
    \/ LoadHearings
    \/ FoldHearing
    \/ FinishBuild

Spec == Init /\ [][Next]_vars
SpecFilter == InitFilter /\ [][Next]_vars
SpecFold == InitFold /\ [][Next]_vars


----------------------------------------------------------------------------
(* The normaliser alone: normaliseNameKey and stripTrailingLocationTokens  *)
(* applied to a raw name and to the same name with decorations added.      *)

\* "John"
W_John == <<"J","o","h","n">>
\* "A."
W_A == <<"A",".">>
\* "of"
W_of == <<"o","f">>
\* "for"
W_for == <<"f","o","r">>
\* "from"
W_from == <<"f","r","o","m">>
\* "Washington"
W_Washington == <<"W","a","s","h","i","n","g","t","o","n">>
\* "Texas"
W_Texas == <<"T","e","x","a","s">>
\* "Hon."
W_Hon == <<"H","o","n",".">>
\* "Jr."
W_Jr == <<"J","r",".">>
\* "(D-CA)"
W_ParenDCA == <<"(","D","-","C","A",")">>
\* "R-TX"
W_RTX == <<"R","-","T","X">>

\* the words that follow the first name of a raw name: a name, an initial,
\* two location introducers and a state
NameWords == { W_John, W_A, W_of, W_for, W_Washington }
TitleWords == { W_Hon }
SuffixWords == { W_Jr }
PartyStateAnnotations == { W_ParenDCA, W_RTX }
LocationPhrases == { W_of \o <<" ">> \o W_Texas, W_for \o <<" ">> \o W_Texas,
                     W_from \o <<" ">> \o W_Texas }

\* raw names of up to MaxWords words, the first a first name
RawNames == { join(<<W_John>> \o ws, <<" ">>) : ws \in SeqsUpTo(NameWords, MaxWords - 1) }

AppIdle == ExplorerIdle /\ PromisesIdle /\ AttachIdle /\ CsvIdle

InitNorm ==
    /\ AppIdle
    /\ baseName \in RawNames
    /\ variantName = baseName
    /\ decorations = 0
    /\ normPhase = "input"
    /\ normBase = <<>>
    /\ normVariant = <<>>
    /\ normTwice = <<>>
    /\ stripIn = <<>>
    /\ stripOut = <<>>

Decorate(text) ==
    /\ normPhase = "input"
    /\ decorations < MaxDecorations
    /\ variantName' = text
    /\ decorations' = decorations + 1
    /\ UNCHANGED <<appVars, uiVars, promiseVars, attachVars, csvVars,
                   baseName, normPhase, normBase, normVariant, normTwice,
                   stripIn, stripOut>>

\* an honorific is put in front of the name
AddTitle == \E t \in TitleWords : Decorate(t \o <<" ">> \o variantName)
\* a name suffix is put behind the name
AddSuffix == \E t \in SuffixWords : Decorate(variantName \o <<" ">> \o t)
\* a party-state annotation is put behind the name
AddPartyState == \E t \in PartyStateAnnotations : Decorate(variantName \o <<" ">> \o t)
\* a location phrase is put behind the name
AppendLocation == \E t \in LocationPhrases : Decorate(variantName \o <<" ">> \o t)

\* the name and its variant are normalised, and the key of the variant is
\* normalised once more
Normalise ==
    /\ normPhase = "input"
    /\ normPhase' = "normalised"
    /\ normBase' = normaliseNameKey(baseName)
    /\ normVariant' = normaliseNameKey(variantName)
    /\ normTwice' = normaliseNameKey(normaliseNameKey(variantName))
    /\ stripIn' = nameParts(variantName)
    /\ stripOut' = stripTrailingLocationTokens(nameParts(variantName))
    /\ UNCHANGED <<appVars, uiVars, promiseVars, attachVars, csvVars,
                   baseName, variantName, decorations>>

NextNorm ==
    \/ AddTitle
    \/ AddSuffix
    \/ AddPartyState
    \/ AppendLocation
    \/ Normalise

SpecNorm == InitNorm /\ [][NextNorm]_vars


----------------------------------------------------------------------------
(* Properties.                                                             *)

\* the identity keyed key exists in map m
HasKey(m, key) == MapIndex(m, key) # 0
\* the hearing count of the identity keyed key in m, 0 when there is none
CountOf(m, key) == IF HasKey(m, key) THEN MapGet(m, key).count ELSE 0
\* token list t has a location introducer followed only, and by at least
\* one, location token, at position i
LocationPhraseAt(t, i) ==
    /\ t[i] \in LOCATION_KEYWORDS
    /\ i < Len(t)
    /\ \A j \in (i+1)..Len(t) : t[j] \in LOCATION_TOKENS

\* C1: no two entries of the witness map of the database explorer have
\* names that normalise (normaliseNameKey) to the same key: appearances
\* with one normalised key are folded into one identity.
C1_OneIdentityPerNormalisedKey ==
    (pc = "ready" /\ explorer = "db") =>
        \A i, j \in DOMAIN witnessMap :
            normaliseNameKey(witnessMap[i].name) = normaliseNameKey(witnessMap[j].name)
                => i = j

\* C2: the count of every identity of the returned map is the number of
\* distinct hearing ids whose hearing has a witness that normalises
\* (normaliseNameKey) to the identity's normalised key.
C2_CountIsHearingsOfNormalisedKey ==
    (pc = "ready" /\ explorer = "db") =>
        \A i \in DOMAIN witnessMap :
            witnessMap[i].count =
                Cardinality({ hearings[p].id : p \in
                    { q \in DOMAIN hearings :
                        \E w \in DOMAIN hearings[q].witnesses :
                            normaliseNameKey(hearings[q].witnesses[w])
                                = normaliseNameKey(witnessMap[i].name) } })

\* C3: one pass of buildWitnessMap over a hearing raises the count of each
\* identity by at most 1, in either explorer, however often a name with the
\* identity's key stands in the hearing's witness list.
C3_CountGrowsByAtMostOnePerHearing ==
    [][\A i \in DOMAIN map' : map'[i].count <= CountOf(map, map'[i].key) + 1]_vars

\* C3 happens: the CSV explorer has folded a hearing whose witness list
\* holds one key twice.
C3_RepeatedKeyFolded ==
    /\ explorer = "csv"
    /\ pc = "folding"
    /\ foldIndex >= 1
    /\ \E i, j \in DOMAIN hearings[foldIndex].witnessKeys :
        /\ i < j
        /\ hearings[foldIndex].witnessKeys[i] = hearings[foldIndex].witnessKeys[j]
        /\ CountOf(map, hearings[foldIndex].witnessKeys[i]) >= 1

\* C4: the returned map holds exactly the folded identities that pass the
\* five rules: count at most 55; a normalised name of two or more tokens
\* whose first and last are longer than one character; no normalised token
\* a non-name fragment; no party-affiliation pattern in the name; the
\* normalised key not in the exclusion set.  Kept entries are the folded
\* entries, in their order.
C4_MapHoldsExactlyTheAccepted ==
    (pc = "ready" /\ explorer = "db") =>
        LET Accepted(entry) ==
                LET key == normaliseNameKey(entry.name)
                    tokens == splitSpaces(key)
                IN  /\ entry.count <= 55
                    /\ Len(tokens) >= 2
                    /\ Len(tokens[1]) > 1
                    /\ Len(tokens[Len(tokens)]) > 1
                    /\ \A t \in DOMAIN tokens : tokens[t] \notin NON_NAME_TOKENS
                    /\ ~containsPartyAffiliation(entry.name)
                    /\ key \notin excludedLegislatorKeys.keys
        IN  witnessMap = SelectSeq(map, Accepted)

\* C4 happens: an identity of 56 hearings is dropped, though its name
\* passes the four other rules.
C4_OverCeilingDropped ==
    /\ pc = "ready"
    /\ explorer = "db"
    /\ \E i \in DOMAIN map :
        /\ map[i].count = 56
        /\ hasFirstAndLastName(map[i].name)
        /\ ~containsPartyAffiliation(map[i].name)
        /\ normaliseNameKey(map[i].name) \notin excludedLegislatorKeys.keys
        /\ ~HasKey(witnessMap, map[i].key)

\* C5: an identity is excluded when its normalised key, the key with its
\* hyphens turned into spaces, or the key with its apostrophes removed is in
\* the exclusion set.
C5_PunctuationVariantsOfWitnessExcluded ==
    (pc = "ready" /\ explorer = "db") =>
        \A i \in DOMAIN map :
            LET key == normaliseNameKey(map[i].name)
                tried == { key, replaceChar(key, "-", <<" ">>), replaceChar(key, "'", <<>>) }
            IN  (key # <<>> /\ tried \cap excludedLegislatorKeys.keys # {})
                    => ~HasKey(witnessMap, map[i].key)

\* C6: when the exclusion list holds a name and a hearing holds a witness
\* whose raw name normalises to the same key, the witness's identity is
\* built by the fold and is absent from the returned map and from the
\* sorted witness list.
C6_ListedWitnessAbsent ==
    (pc = "ready" /\ explorer = "db" /\ excludedPayload.kind = "array") =>
        \A n \in DOMAIN excludedPayload.items : \A p \in DOMAIN hearings :
            \A w \in DOMAIN hearings[p].witnesses :
                LET item == excludedPayload.items[n]
                    name == hearings[p].witnesses[w]
                IN  (/\ IsString(item)
                     /\ normaliseNameKey(item) # <<>>
                     /\ normaliseNameKey(name) = normaliseNameKey(item))
                    => /\ HasKey(map, nameToKey(name))
                       /\ ~HasKey(witnessMap, nameToKey(name))
                       /\ \A s \in DOMAIN sortedWitnesses :
                            sortedWitnesses[s].key # nameToKey(name)

\* C6 happens: the list holds 'John Smith', a hearing holds the witness
\* 'John Smith', and the fold has built the identity.
C6_JohnSmithListedAndFolded ==
    /\ pc = "ready"
    /\ explorer = "db"
    /\ excludedPayload.kind = "array"
    /\ \E n \in DOMAIN excludedPayload.items : excludedPayload.items[n] = JohnSmith
    /\ \E p \in DOMAIN hearings : \E w \in DOMAIN hearings[p].witnesses :
        hearings[p].witnesses[w] = JohnSmith
    /\ HasKey(map, nameToKey(JohnSmith))

\* C7: a raw name and the same name with honorifics, name suffixes,
\* party-state annotations or a trailing location phrase added have the
\* same normaliseNameKey.
C7_DecorationsKeepTheKey ==
    normPhase = "normalised" => normVariant = normBase

\* C8: normaliseNameKey of a key it returned is that key.
C8_NormaliseIsIdempotent ==
    normPhase = "normalised" => normTwice = normVariant

\* C9: stripTrailingLocationTokens returns the tokens before an introducer
\* that is followed only by location tokens, returns the list unchanged when
\* there is none, and its result does not end in a location phrase.
C9_StripRemovesTheLocationPhrase ==
    normPhase = "normalised" =>
        LET hits == { i \in DOMAIN stripIn : LocationPhraseAt(stripIn, i) }
        IN  /\ hits # {} => \E i \in hits : stripOut = SubSeq(stripIn, 1, i - 1)
            /\ hits = {} => stripOut = stripIn
            /\ \A i \in DOMAIN stripOut : ~LocationPhraseAt(stripOut, i)

\* C10: the key normaliseNameKey returns is its tokens joined by single
\* spaces, without a space at either end; every token is lower case, longer
\* than one character, and neither a title token nor a name-suffix token.
C10_KeyIsCleanTokens ==
    normPhase = "normalised" =>
        LET pieces == SplitFrom(normVariant, {" "}, 1, <<>>)
        IN  \/ normVariant = <<>>
            \/ \A t \in DOMAIN pieces :
                /\ Len(pieces[t]) > 1
                /\ \A c \in DOMAIN pieces[t] :
                    pieces[t][c] \in LowerSet \cup {"'", "-"}
                /\ pieces[t] \notin NAME_TITLE_TOKENS
                /\ pieces[t] \notin NAME_SUFFIX_TOKENS

\* C10 happens: a name with a title, a suffix or an initial in it has been
\* normalised to a key that is not empty.
C10_TokensWereDropped ==
    /\ normPhase = "normalised"
    /\ normVariant # <<>>
    /\ Len(splitWhitespace(variantName)) > Len(splitSpaces(normVariant))
    /\ \E i \in DOMAIN variantName : variantName[i] \in UpperSet


----------------------------------------------------------------------------
(* The rules of the exclusion filter, one by one.                          *)

\* every token of s, once cleaned and lower-cased as normaliseNameKey does,
\* is a title token or a name-suffix token
OnlyTitlesAndSuffixes(s) ==
    /\ IsString(s)
    /\ LET tokens == splitWhitespace(toLowerCase(cleanNonLetters(s)))
       IN  \A t \in DOMAIN tokens :
            tokens[t] \in NAME_TITLE_TOKENS \cup NAME_SUFFIX_TOKENS
\* the identity keyed key was folded and is not in the returned map nor in
\* the sorted list
Dropped(key) ==
    /\ HasKey(map, key)
    /\ ~HasKey(witnessMap, key)
    /\ \A s \in DOMAIN sortedWitnesses : sortedWitnesses[s].key # key

\* C11: normaliseNameKey gives the empty key for the empty string, for a
\* value that is no string and for a string of title and suffix tokens only,
\* and no identity whose name normalises to the empty key is in the returned
\* map.
C11_EmptyKeyIsExcluded ==
    /\ \A x \in {<<>>, JSNull} \cup Range(excludedPayload.items)
                \cup { dbWitnessRows[r].name : r \in DOMAIN dbWitnessRows } :
            (x = <<>> \/ ~IsString(x) \/ OnlyTitlesAndSuffixes(x))
                => normaliseNameKey(x) = <<>>
    /\ (pc = "ready" /\ explorer = "db") =>
            \A i \in DOMAIN map :
                normaliseNameKey(map[i].name) = <<>> => Dropped(map[i].key)

\* C11 happens: the witness 'Hon. Jr.' was folded and dropped, with an
\* exclusion list that holds null and 'Hon. Jr.'.
C11_HonJrDropped ==
    /\ pc = "ready"
    /\ explorer = "db"
    /\ excludedPayload.kind = "array"
    /\ JSNull \in Range(excludedPayload.items)
    /\ HonJr \in Range(excludedPayload.items)
    /\ \E i \in DOMAIN map :
        /\ map[i].name = HonJr
        /\ map[i].count = 1
        /\ Dropped(map[i].key)

\* C12: an identity of more than 55 hearings is not in the returned map,
\* whatever its name and the exclusion set; an identity of exactly 55
\* hearings that passes the other rules is in it.
C12_CeilingIsFiftyFive ==
    (pc = "ready" /\ explorer = "db") =>
        \A i \in DOMAIN map :
            /\ map[i].count > 55 => Dropped(map[i].key)
            /\ (/\ map[i].count = 55
                /\ hasFirstAndLastName(map[i].name)
                /\ ~containsPartyAffiliation(map[i].name)
                /\ normaliseNameKey(map[i].name) \notin excludedLegislatorKeys.keys)
               => HasKey(witnessMap, map[i].key)

\* C12 happens: 'John Smith' of 56 hearings is dropped though nothing is
\* excluded by name.
C12_JohnSmithOverCeiling ==
    /\ pc = "ready"
    /\ explorer = "db"
    /\ excludedLegislatorKeys.keys = {}
    /\ \E i \in DOMAIN map :
        /\ map[i].name = JohnSmith
        /\ map[i].count = 56
        /\ Dropped(map[i].key)

\* C13: an identity whose name normalises to fewer than two tokens is not
\* in the returned map.
C13_SingleTokenExcluded ==
    (pc = "ready" /\ explorer = "db") =>
        \A i \in DOMAIN map :
            Len(splitSpaces(normaliseNameKey(map[i].name))) < 2 => Dropped(map[i].key)

\* C13 happens: the witness 'Zelensky', of one hearing and with no
\* exclusion list, normalises to one token and is dropped.
C13_ZelenskyDropped ==
    /\ pc = "ready"
    /\ explorer = "db"
    /\ excludedLegislatorKeys.keys = {}
    /\ \E i \in DOMAIN map :
        /\ map[i].name = Zelensky
        /\ map[i].count = 1
        /\ Len(splitSpaces(normaliseNameKey(map[i].name))) = 1
        /\ Dropped(map[i].key)

\* C14: an identity with a token of NON_NAME_TOKENS among its normalised
\* tokens is not in the returned map, also when it has two or more tokens
\* with first and last longer than one character.
C14_NonNameTokenExcluded ==
    (pc = "ready" /\ explorer = "db") =>
        \A i \in DOMAIN map :
            LET tokens == splitSpaces(normaliseNameKey(map[i].name))
            IN  (\E t \in DOMAIN tokens : tokens[t] \in NON_NAME_TOKENS)
                    => Dropped(map[i].key)

\* C14 happens: 'Full hearing transcript is available here', of one
\* hearing, has six tokens longer than one character, and is dropped.
C14_TranscriptLineDropped ==
    /\ pc = "ready"
    /\ explorer = "db"
    /\ excludedLegislatorKeys.keys = {}
    /\ \E i \in DOMAIN map :
        LET tokens == splitSpaces(normaliseNameKey(map[i].name))
        IN  /\ map[i].name = FullHearingTranscript
            /\ map[i].count = 1
            /\ Len(tokens) >= 2
            /\ \A t \in DOMAIN tokens : Len(tokens[t]) > 1
            /\ Dropped(map[i].key)

\* C15: an identity whose name matches a party-affiliation pattern (a party
\* abbreviation with a two-letter state code, or a party word with a
\* parenthesised state code) is not in the returned map.
C15_PartyAffiliationExcluded ==
    (pc = "ready" /\ explorer = "db") =>
        \A i \in DOMAIN map :
            (\/ PARTY_AFFILIATION_REGEX(toUpperCase(map[i].name))
             \/ /\ PARTY_WORD_REGEX(map[i].name)
                /\ ParenthesisedStateCode(toUpperCase(map[i].name)))
                => Dropped(map[i].key)

\* C15 happens: 'Rep. John Smith (R-TX)', of one hearing, normalises to the
\* well-formed 'john smith', which no list excludes, and is dropped.
C15_RepJohnSmithDropped ==
    /\ pc = "ready"
    /\ explorer = "db"
    /\ excludedLegislatorKeys.keys = {}
    /\ \E i \in DOMAIN map :
        /\ map[i].name = RepJohnSmithRTX
        /\ map[i].count = 1
        /\ normaliseNameKey(map[i].name) = <<"j","o","h","n"," ","s","m","i","t","h">>
        /\ hasFirstAndLastName(map[i].name)
        /\ Dropped(map[i].key)

----------------------------------------------------------------------------
(* What the fold keeps of an identity: name, chambers, hearings, order.    *)

\* the raw name of the k-th appearance folded into entry: the first witness
\* of the k-th hearing of its list whose key is the entry's
FoldedName(entry, k) ==
    LET hearing == hearings[entry.hearings[k]]
        w == CHOOSE w \in DOMAIN hearing.witnessKeys :
                /\ hearing.witnessKeys[w] = entry.key
                /\ \A v \in 1..(w - 1) : hearing.witnessKeys[v] # entry.key
    IN  hearing.witnesses[w]

\* C16: the display name of an identity is the longest raw name among the
\* appearances folded into it, and among several of that length the one
\* folded first.
C16_NameIsFirstLongest ==
    \A i \in DOMAIN map :
        \E k \in DOMAIN map[i].hearings :
            /\ map[i].name = FoldedName(map[i], k)
            /\ \A j \in DOMAIN map[i].hearings :
                /\ Len(FoldedName(map[i], j)) <= Len(map[i].name)
                /\ j < k => Len(FoldedName(map[i], j)) < Len(map[i].name)

\* C16 happens: two hearings were folded into one identity with two
\* spellings of one length, and the name is the spelling folded first.
C16_TieKeptTheFirst ==
    /\ pc = "ready"
    /\ \E i \in DOMAIN map : \E j, k \in DOMAIN map[i].hearings :
        /\ j < k
        /\ FoldedName(map[i], j) # FoldedName(map[i], k)
        /\ Len(FoldedName(map[i], j)) = Len(FoldedName(map[i], k))
        /\ map[i].name = FoldedName(map[i], j)

\* C17: in the database explorer the chamber set of an identity is the set
\* of the chambers of the hearings in its list, at every point of the fold,
\* and once the map is built the identity is flagged dual-chamber exactly
\* when the set holds two chambers or more.
C17_ChambersOfItsHearings ==
    explorer = "db" =>
        /\ \A i \in DOMAIN map :
            map[i].chambers =
                { hearings[map[i].hearings[k]].chamber : k \in DOMAIN map[i].hearings }
        /\ pc = "ready" =>
            /\ \A i \in DOMAIN map :
                map[i].isDualChamber <=> Cardinality(map[i].chambers) >= 2
            /\ \A i \in DOMAIN witnessMap :
                /\ witnessMap[i] = MapGet(map, witnessMap[i].key)
                /\ witnessMap[i].isDualChamber <=> Cardinality(witnessMap[i].chambers) >= 2

\* C17 happens: an identity of a house hearing and a senate hearing is in
\* the returned map, flagged dual-chamber.
C17_HouseAndSenate ==
    /\ pc = "ready"
    /\ explorer = "db"
    /\ \E i \in DOMAIN witnessMap :
        /\ witnessMap[i].chambers = {"house", "senate"}
        /\ witnessMap[i].count = 2
        /\ witnessMap[i].isDualChamber

\* C18: in either explorer, at every point of the fold, the count of an
\* identity is the length of its hearing list, and the list holds each
\* folded hearing that has a witness of the identity's key once, in the order
\* of state.hearings.
C18_HearingListMatchesCount ==
    \A i \in DOMAIN map :
        /\ map[i].count = Len(map[i].hearings)
        /\ \A j, k \in DOMAIN map[i].hearings :
            j < k => map[i].hearings[j] < map[i].hearings[k]
        /\ Range(map[i].hearings) =
            { p \in 1..foldIndex : map[i].key \in Range(hearings[p].witnessKeys) }

\* C18 happens: an identity was folded from the first and the second
\* hearing, the second of which repeats its key.
C18_TwoHearingsInOrder ==
    /\ pc = "ready"
    /\ explorer = "csv"
    /\ \E i \in DOMAIN map :
        /\ map[i].hearings = <<1, 2>>
        /\ map[i].count = 2
        /\ \E v, w \in DOMAIN hearings[2].witnessKeys :
            /\ v < w
            /\ hearings[2].witnessKeys[v] = map[i].key
            /\ hearings[2].witnessKeys[w] = map[i].key

\* C19: state.sortedWitnesses holds the entries of state.witnessMap, ordered
\* by count descending and, for one count, by name ascending with case
\* ignored.
C19_SortedByCountThenName ==
    pc = "ready" =>
        /\ Len(sortedWitnesses) = Len(witnessMap)
        /\ Range(sortedWitnesses) = Range(witnessMap)
        /\ \A s \in 1..(Len(sortedWitnesses) - 1) :
            LET a == sortedWitnesses[s]
                b == sortedWitnesses[s + 1]
            IN  \/ a.count > b.count
                \/ /\ a.count = b.count
                   /\ localeCompare(a.name, b.name, 1) <= 0

\* C19 happens: the sorted list holds two identities in another order than
\* the map does.
C19_SortReordered ==
    /\ pc = "ready"
    /\ Len(sortedWitnesses) = 2
    /\ sortedWitnesses # witnessMap

\* C20: when the exclusion list cannot be fetched, is no array or is empty,
\* the promise resolves to the empty set, and the returned map is the folded
\* map filtered by the rules of count, name shape and party affiliation
\* alone.
C20_NoListExcludesNothing ==
    (explorer = "db" /\ (excludedPayload.kind # "array" \/ excludedPayload.items = <<>>)) =>
        /\ excludedLegislatorKeys.settled => excludedLegislatorKeys.keys = {}
        /\ pc = "ready" =>
            LET FourRules(entry) ==
                    /\ entry.count <= MAX_HEARING_COUNT_PER_WITNESS
                    /\ hasFirstAndLastName(entry.name)
                    /\ ~containsPartyAffiliation(entry.name)
            IN  witnessMap = SelectSeq(map, FourRules)

\* C20 happens: the payload is no array, though it holds 'John Smith';
\* loading went on and the witness 'John Smith' is in the returned map.
C20_NotAnArrayKeepsJohnSmith ==
    /\ pc = "ready"
    /\ explorer = "db"
    /\ excludedPayload.kind = "not_array"
    /\ JohnSmith \in Range(excludedPayload.items)
    /\ excludedLegislatorKeys.settled
    /\ \E i \in DOMAIN witnessMap : witnessMap[i].name = JohnSmith

----------------------------------------------------------------------------
(* The event handlers of the two explorers.                                *)

\* "Finance"
Finance == <<"F","i","n","a","n","c","e">>
\* "tax"
TaxTag == <<"t","a","x">>
\* "2025-03-01"
Iso_2025_03_01 == <<"2","0","2","5","-","0","3","-","0","1">>
\* "3/1/2025"
Us_3_1_2025 == <<"3","/","1","/","2","0","2","5">>
\* "TBD", a date cell that is no date
DateTBD == <<"T","B","D">>

\* what is typed into the witness search: nothing, " Jane", "smith"
SearchTexts == { <<>>, <<" ","J","a","n","e">>, <<"s","m","i","t","h">> }
\* what the date inputs can hold
DateInputs == { <<>>, Iso_2025_03_01 }
\* data-sort-key of the sort buttons pressed
SortKeys == { "date", "title" }

\* three hearings: two witnesses in the House, one of them in the Senate as
\* well six weeks later, a third in a hearing whose date is no date
UiWitnessRows ==
    << [hearing_id |-> 1, name |-> JaneDoe], [hearing_id |-> 1, name |-> JohnSmith],
       [hearing_id |-> 2, name |-> JaneDoe],
       [hearing_id |-> 3, name |-> MarySmithHyphenJones] >>
UiHearingRows ==
    << [id |-> 1, chamber |-> "house", committee |-> Judiciary, tags |-> <<>>,
        date |-> Iso_2025_01_15],
       [id |-> 2, chamber |-> "senate", committee |-> Finance, tags |-> <<TaxTag>>,
        date |-> Iso_2025_03_01],
       [id |-> 3, chamber |-> "house", committee |-> Judiciary, tags |-> <<>>,
        date |-> DateTBD] >>
UiCsvRows ==
    << [Committee |-> Judiciary, Tags |-> <<>>, Date |-> Us_1_15_2025,
        witnesses |-> <<JaneDoe, JohnSmith>>],
       [Committee |-> Finance, Tags |-> <<TaxTag>>, Date |-> Us_3_1_2025,
        witnesses |-> <<JaneDoe>>],
       [Committee |-> Judiciary, Tags |-> <<>>, Date |-> DateTBD,
        witnesses |-> <<MarySmithHyphenJones>>] >>

\* either explorer over the three hearings, in a browser west or east of
\* Greenwich
InitUI ==
    /\ AppStart
    /\ FunctionsIdle
    /\ timezoneOffset \in { -5, 2 }
    /\ \/ /\ explorer = "db"
          /\ dbHearingRows = UiHearingRows
          /\ dbWitnessRows = UiWitnessRows
          /\ csvRows = <<>>
          /\ excludedPayload = [kind |-> "array", items |-> <<>>]
       \/ /\ explorer = "csv"
          /\ dbHearingRows = <<>>
          /\ dbWitnessRows = <<>>
          /\ csvRows = UiCsvRows
          /\ excludedPayload = [kind |-> "http_error", items |-> <<>>]

\* handlers that run in the middle of initialise's last, synchronous part
HandlersMayRun_WhileFolding == pc # "created"

\* attachEventListeners has run, and initialise is at an await or has
\* returned: an event handler can run
HandlersMayRun == pc \in { "awaiting", "failed", "no_hearings", "ready" }

\* populateFilterOptions: the options of the committee and the tag select
CommitteeOptions ==
    {AllOption} \cup
    (IF pc = "ready"
     THEN { hearings[p].committee : p \in { q \in DOMAIN hearings : hearings[q].committee # <<>> } }
     ELSE {})
TagOptions ==
    {AllOption} \cup
    (IF pc = "ready" THEN UNION { Range(hearings[p].tags) : p \in DOMAIN hearings } ELSE {})

HandlerFrame == UNCHANGED <<appVars, timezoneOffset, rerun, functionVars>>

\* witnessSearch, 'input'
WitnessSearchInput ==
    /\ HandlersMayRun
    /\ \E value \in SearchTexts :
        LET f == [filters EXCEPT !.witnessQuery = trim(value)]
            rendered == renderWitnessList(selectedWitnessKey, f, sortedWitnesses,
                                          witnessElements)
        IN  /\ filters' = f
            /\ selectedWitnessKey' = rendered.selectedWitnessKey
            /\ witnessElements' = rendered.witnessElements
            /\ IF rendered.selectionChanged
               THEN filteredHearings' =
                        applyFilters(hearings, f, rendered.selectedWitnessKey)
               ELSE UNCHANGED filteredHearings
    /\ UNCHANGED sort
    /\ HandlerFrame

\* committeeFilter, 'change'
CommitteeChange ==
    /\ HandlersMayRun
    /\ \E value \in CommitteeOptions :
        /\ filters' = [filters EXCEPT !.committee = value]
        /\ filteredHearings' = applyFilters(hearings, filters', selectedWitnessKey)
    /\ UNCHANGED <<selectedWitnessKey, sort, witnessElements>>
    /\ HandlerFrame

\* tagFilter, 'change'
TagChange ==
    /\ HandlersMayRun
    /\ \E value \in TagOptions :
        /\ filters' = [filters EXCEPT !.tag = value]
        /\ filteredHearings' = applyFilters(hearings, filters', selectedWitnessKey)
    /\ UNCHANGED <<selectedWitnessKey, sort, witnessElements>>
    /\ HandlerFrame

\* startDate, 'change'
StartDateChange ==
    /\ HandlersMayRun
    /\ \E value \in DateInputs :
        /\ filters' = [filters EXCEPT !.startDate = dateOfInput(value)]
        /\ filteredHearings' = applyFilters(hearings, filters', selectedWitnessKey)
    /\ UNCHANGED <<selectedWitnessKey, sort, witnessElements>>
    /\ HandlerFrame

\* endDate, 'change'
EndDateChange ==
    /\ HandlersMayRun
    /\ \E value \in DateInputs :
        /\ filters' = [filters EXCEPT !.endDate = dateOfInput(value)]
        /\ filteredHearings' = applyFilters(hearings, filters', selectedWitnessKey)
    /\ UNCHANGED <<selectedWitnessKey, sort, witnessElements>>
    /\ HandlerFrame

\* the clear handler that keeps the selected witness
ClearFiltersClick_KeepsSelection ==
    /\ HandlersMayRun
    /\ LET rendered == renderWitnessList(selectedWitnessKey, DefaultFilters,
                                         sortedWitnesses, witnessElements)
       IN  /\ filters' = DefaultFilters
           /\ selectedWitnessKey' = rendered.selectedWitnessKey
           /\ witnessElements' = rendered.witnessElements
           /\ filteredHearings' =
                  applyFilters(hearings, DefaultFilters, rendered.selectedWitnessKey)
    /\ UNCHANGED sort
    /\ HandlerFrame

\* clearFilters, 'click'; the CSV explorer's filters have no dualChamberOnly,
\* which reads as false
ClearFiltersClick ==
    /\ HandlersMayRun
    /\ LET rendered == renderWitnessList(JSNull, DefaultFilters, sortedWitnesses,
                                         witnessElements)
       IN  /\ filters' = DefaultFilters
           /\ selectedWitnessKey' = rendered.selectedWitnessKey
           /\ witnessElements' = rendered.witnessElements
           /\ filteredHearings' =
                  applyFilters(hearings, DefaultFilters, rendered.selectedWitnessKey)
    /\ UNCHANGED sort
    /\ HandlerFrame

\* a sort button, 'click'
SortButtonClick ==
    /\ HandlersMayRun
    /\ \E key \in SortKeys : sort' = updateSort(sort, key)
    /\ filteredHearings' = applyFilters(hearings, filters, selectedWitnessKey)
    /\ UNCHANGED <<filters, selectedWitnessKey, witnessElements>>
    /\ HandlerFrame

\* the toggle that applies the filters only when renderWitnessList says the
\* selection changed
DualChamberToggleClick_TrustsRender ==
    /\ HandlersMayRun
    /\ explorer = "db"
    /\ LET f == [filters EXCEPT !.dualChamberOnly = ~@]
           selected ==
              IF f.dualChamberOnly /\ selectedWitnessKey # JSNull
                 /\ (selectedWitnessKey \notin MapKeys(witnessMap)
                     \/ Cardinality(MapGet(witnessMap, selectedWitnessKey).chambers) < 2)
              THEN JSNull ELSE selectedWitnessKey
           rendered == renderWitnessList(selected, f, sortedWitnesses, witnessElements)
       IN  /\ filters' = f
           /\ selectedWitnessKey' = rendered.selectedWitnessKey
           /\ witnessElements' = rendered.witnessElements
           /\ IF rendered.selectionChanged
              THEN filteredHearings' =
                       applyFilters(hearings, f, rendered.selectedWitnessKey)
              ELSE UNCHANGED filteredHearings
    /\ UNCHANGED sort
    /\ HandlerFrame

\* dualChamberToggle, 'click': the database explorer's button
DualChamberToggleClick ==
    /\ HandlersMayRun
    /\ explorer = "db"
    /\ LET f == [filters EXCEPT !.dualChamberOnly = ~@]
           selected ==
              IF f.dualChamberOnly /\ selectedWitnessKey # JSNull
                 /\ (selectedWitnessKey \notin MapKeys(witnessMap)
                     \/ Cardinality(MapGet(witnessMap, selectedWitnessKey).chambers) < 2)
              THEN JSNull ELSE selectedWitnessKey
           rendered == renderWitnessList(selected, f, sortedWitnesses, witnessElements)
       IN  /\ filters' = f
           /\ selectedWitnessKey' = rendered.selectedWitnessKey
           /\ witnessElements' = rendered.witnessElements
           /\ IF rendered.selectionChanged
                 \/ selectedWitnessKey # rendered.selectedWitnessKey
              THEN filteredHearings' =
                       applyFilters(hearings, f, rendered.selectedWitnessKey)
              ELSE UNCHANGED filteredHearings
    /\ UNCHANGED sort
    /\ HandlerFrame

\* a witness button, 'click': any button the list holds, shown or hidden
WitnessButtonClick ==
    /\ HandlersMayRun
    /\ \E key \in witnessElements :
        LET toggled == IF selectedWitnessKey = key THEN JSNull ELSE key
            rendered == renderWitnessList(toggled, filters, sortedWitnesses,
                                          witnessElements)
        IN  /\ selectedWitnessKey' = rendered.selectedWitnessKey
            /\ witnessElements' = rendered.witnessElements
            /\ filteredHearings' =
                   applyFilters(hearings, filters, rendered.selectedWitnessKey)
    /\ UNCHANGED <<filters, sort>>
    /\ HandlerFrame

\* buildWitnessMap and sortWitnesses once more, over state.hearings and the
\* keys loaded
Rerun ==
    /\ pc = "ready"
    /\ ~rerun.done
    /\ LET again == buildWitnessMap(hearings, excludedLegislatorKeys.keys)
       IN  rerun' = [done |-> TRUE, witnessMap |-> again,
                     sortedWitnesses |-> sortFrom(again, 1, <<>>)]
    /\ UNCHANGED <<appVars, timezoneOffset, filters, selectedWitnessKey,
                   filteredHearings, sort, witnessElements, functionVars>>

NextUI ==
    \/ Next
    \/ WitnessSearchInput
    \/ CommitteeChange
    \/ TagChange
    \/ StartDateChange
    \/ EndDateChange
    \/ ClearFiltersClick
    \/ SortButtonClick
    \/ DualChamberToggleClick
    \/ WitnessButtonClick
    \/ Rerun

SpecUI == InitUI /\ [][NextUI]_vars

----------------------------------------------------------------------------
(* The two loaders and their promises.                                     *)

\* calls of the two loaders looked at
MaxCalls == 4

\* the cache test that lets a rejected promise be replaced
cached_UnlessRejected(promise) ==
    promise # 0 /\ promises[promise].state # "rejected"

\* if (sqlJsInstancePromise) / if (excludedLegislatorKeysPromise)
cached(promise) == promise # 0

InitLoad ==
    /\ ExplorerIdle
    /\ NormIdle
    /\ PromisesIdle
    /\ AttachIdle
    /\ CsvIdle

LoadFrame == UNCHANGED <<appVars, uiVars, normVars, attachVars, csvVars>>

\* function loadSqlJsInstance(): the promise of an earlier call, or a new
\* promise whose executor starts the load of sql.js
CallLoadSqlJsInstance ==
    /\ Len(returnedPromises) < MaxCalls
    /\ IF cached(sqlJsInstancePromise)
       THEN /\ returnedPromises' = Append(returnedPromises,
                   [loader |-> "sqlJs", promise |-> sqlJsInstancePromise])
            /\ UNCHANGED <<sqlJsInstancePromise, promises, loadsStarted>>
       ELSE /\ promises' = Append(promises, [loader |-> "sqlJs", state |-> "pending"])
            /\ loadsStarted' = [loadsStarted EXCEPT !.sqlJs = @ + 1]
            /\ sqlJsInstancePromise' = Len(promises) + 1
            /\ returnedPromises' = Append(returnedPromises,
                   [loader |-> "sqlJs", promise |-> Len(promises) + 1])
    /\ UNCHANGED excludedLegislatorKeysPromise
    /\ LoadFrame

\* function loadExcludedLegislatorKeys(): the promise of an earlier call, or
\* the promise of a new fetch
CallLoadExcludedLegislatorKeys ==
    /\ Len(returnedPromises) < MaxCalls
    /\ IF cached(excludedLegislatorKeysPromise)
       THEN /\ returnedPromises' = Append(returnedPromises,
                   [loader |-> "excludedKeys", promise |-> excludedLegislatorKeysPromise])
            /\ UNCHANGED <<excludedLegislatorKeysPromise, promises, loadsStarted>>
       ELSE /\ promises' = Append(promises, [loader |-> "excludedKeys", state |-> "pending"])
            /\ loadsStarted' = [loadsStarted EXCEPT !.excludedKeys = @ + 1]
            /\ excludedLegislatorKeysPromise' = Len(promises) + 1
            /\ returnedPromises' = Append(returnedPromises,
                   [loader |-> "excludedKeys", promise |-> Len(promises) + 1])
    /\ UNCHANGED sqlJsInstancePromise
    /\ LoadFrame

\* a load ends: sql.js is there or is not; the key list's promise is always
\* fulfilled, with an empty set after a failure
SettlePromise ==
    /\ \E i \in DOMAIN promises : \E outcome \in { "fulfilled", "rejected" } :
        /\ promises[i].state = "pending"
        /\ promises[i].loader = "excludedKeys" => outcome = "fulfilled"
        /\ promises' = [promises EXCEPT ![i].state = outcome]
    /\ UNCHANGED <<sqlJsInstancePromise, excludedLegislatorKeysPromise, loadsStarted,
                   returnedPromises>>
    /\ LoadFrame

NextLoad ==
    \/ CallLoadSqlJsInstance
    \/ CallLoadExcludedLegislatorKeys
    \/ SettlePromise

SpecLoad == InitLoad /\ [][NextLoad]_vars

----------------------------------------------------------------------------
(* attachWitnessesToHearings on its own.                                   *)

\* witness rows looked at
MaxAttachRows == 3

\* attachWitnessesToHearings, first loop: the details pushed to hearing id;
\* truthInTestimonyPdf is carried along as title is and is left out
pushedDetails(id, witnessRows) ==
    LET Mine(row) == row.hearing_id = id /\ trim(row.name) # <<>>
        rows == SelectSeq(witnessRows, Mine)
    IN  [i \in 1..Len(rows) |-> [name |-> trim(rows[i].name), title |-> trim(rows[i].title)]]

RECURSIVE uniqueDetails_ByKeptIndex(_, _, _, _, _)
\* the second loop with the detail taken at the index among the names kept
uniqueDetails_ByKeptIndex(names, details, index, seen, kept) ==
    IF index > Len(names) THEN <<>>
    ELSE LET key == nameToKey(names[index])
         IN  IF key = <<>> \/ key \in seen
             THEN uniqueDetails_ByKeptIndex(names, details, index + 1, seen, kept)
             ELSE <<details[kept + 1]>>
                  \o uniqueDetails_ByKeptIndex(names, details, index + 1,
                                               seen \cup {key}, kept + 1)

RECURSIVE uniqueDetails(_, _, _, _, _)
\* attachWitnessesToHearings, second loop: the details kept from index on;
\* kept counts the names kept so far
uniqueDetails(names, details, index, seen, kept) ==
    IF index > Len(names) THEN <<>>
    ELSE LET key == nameToKey(names[index])
         IN  IF key = <<>> \/ key \in seen
             THEN uniqueDetails(names, details, index + 1, seen, kept)
             ELSE <<details[index]>>
                  \o uniqueDetails(names, details, index + 1, seen \cup {key}, kept + 1)

\* function attachWitnessesToHearings(hearings, witnessRows): the hearings
\* afterwards
attachWitnessesToHearings(hs, witnessRows) ==
    [i \in DOMAIN hs |->
        LET pushed == pushedWitnesses(hs[i].id, witnessRows)
            names == uniqueNames(pushed, 1, {})
        IN  [id             |-> hs[i].id,
             witnesses      |-> names,
             witnessDetails |-> uniqueDetails(pushed, pushedDetails(hs[i].id, witnessRows),
                                              1, {}, 0),
             witnessKeys    |-> [j \in 1..Len(names) |-> nameToKey(names[j])]]]

\* " ", a name cell of white space
BlankName == <<" ">>
\* " jane doe ", the name once more in another spelling
JaneDoeLowerPadded == <<" ","j","a","n","e"," ","d","o","e"," ">>
AttachNames == { JaneDoe, JaneDoeLowerPadded, JohnSmith, BlankName }
\* title cells: "Chair " and "CEO"
AttachTitles == { <<"C","h","a","i","r"," ">>, <<"C","E","O">> }
\* the hearings given: ids 1 and 2, with empty lists; rows name hearing 3 too
AttachHearings == << [id |-> 1], [id |-> 2] >>
AttachRowLists ==
    { rows \in SeqsUpTo([hearing_id : 1..3, name : AttachNames, title : AttachTitles],
                        MaxAttachRows) :
        \A i \in 1..(Len(rows) - 1) : rows[i].hearing_id <= rows[i+1].hearing_id }

InitAttach ==
    /\ ExplorerIdle
    /\ NormIdle
    /\ PromisesIdle
    /\ CsvIdle
    /\ attachRows \in AttachRowLists
    /\ attached = [done |-> FALSE, hearings |-> <<>>]

\* attachWitnessesToHearings(hearings, witnessRows) is called
AttachWitnesses ==
    /\ ~attached.done
    /\ attached' = [done |-> TRUE,
                    hearings |-> attachWitnessesToHearings(AttachHearings, attachRows)]
    /\ UNCHANGED <<appVars, uiVars, normVars, promiseVars, csvVars, attachRows>>

NextAttach == AttachWitnesses

SpecAttach == InitAttach /\ [][NextAttach]_vars

----------------------------------------------------------------------------
(* The CSV explorer's parseCSV on its own.                                 *)

\* characters of the texts looked at
MaxCsvLength == 5

\* U+FEFF, the byte order mark
BOM == "BOM"
\* the characters of the texts: a letter, the comma, the double quote, line
\* feed and carriage return
CsvChars == { "a", ",", "\"", "\n", "\r" }

RECURSIVE normaliseNewlines(_, _)
\* text.replace(/\r\n/g, '\n').replace(/\r/g, '\n'), from position index on
normaliseNewlines(text, index) ==
    IF index > Len(text) THEN <<>>
    ELSE IF text[index] = "\r" /\ index < Len(text) /\ text[index + 1] = "\n"
         THEN <<"\n">> \o normaliseNewlines(text, index + 2)
    ELSE IF text[index] = "\r"
         THEN <<"\n">> \o normaliseNewlines(text, index + 1)
    ELSE <<text[index]>> \o normaliseNewlines(text, index + 1)

RECURSIVE parseFrom(_, _, _, _, _, _)
\* parseCSV: the for loop from index on (index counts from 1) and what
\* follows it
parseFrom(text, index, rows, currentRow, currentCell, withinQuotes) ==
    IF index > Len(text)
    THEN IF Len(currentCell) > 0 \/ Len(currentRow) > 0
         THEN Append(rows, Append(currentRow, currentCell))
         ELSE rows
    ELSE LET char == text[index]
         IN  IF char = "\""
             THEN IF withinQuotes /\ index < Len(text) /\ text[index + 1] = "\""
                  THEN parseFrom(text, index + 2, rows, currentRow,
                                 Append(currentCell, "\""), withinQuotes)
                  ELSE parseFrom(text, index + 1, rows, currentRow, currentCell,
                                 ~withinQuotes)
             ELSE IF char = "," /\ ~withinQuotes
             THEN parseFrom(text, index + 1, rows, Append(currentRow, currentCell),
                            <<>>, withinQuotes)
             ELSE IF char = "\n" /\ ~withinQuotes
             THEN parseFrom(text, index + 1,
                            Append(rows, Append(currentRow, currentCell)),
                            <<>>, <<>>, withinQuotes)
             ELSE parseFrom(text, index + 1, rows, currentRow,
                            Append(currentCell, char), withinQuotes)

\* CSV explorer, function parseCSV(rawText): rows of cells
parseCSV(rawText) ==
    IF rawText = <<>> THEN <<>>
    ELSE LET text == IF rawText[1] = BOM THEN Tail(rawText) ELSE rawText
         IN  parseFrom(normaliseNewlines(text, 1), 1, <<>>, <<>>, <<>>, FALSE)

\* texts of up to MaxCsvLength characters, and short texts after a byte order
\* mark
CsvTexts ==
    SeqsUpTo(CsvChars, MaxCsvLength)
    \cup { <<BOM>> \o text : text \in SeqsUpTo(CsvChars, 2) }

InitCSV ==
    /\ ExplorerIdle
    /\ NormIdle
    /\ PromisesIdle
    /\ AttachIdle
    /\ csvText \in CsvTexts
    /\ csvParsed = [done |-> FALSE, rows |-> <<>>]

\* parseCSV(text) is called
ParseCSV ==
    /\ ~csvParsed.done
    /\ csvParsed' = [done |-> TRUE, rows |-> parseCSV(csvText)]
    /\ UNCHANGED <<appVars, uiVars, normVars, promiseVars, attachVars, csvText>>

NextCSV == ParseCSV

SpecCSV == InitCSV /\ [][NextCSV]_vars

----------------------------------------------------------------------------
(* The explorers at work: determinism, publication, frames, the selection  *)
(* and the table.                                                          *)

HandlerStep ==
    /\ pc' = pc
    /\ <<filters, selectedWitnessKey, filteredHearings, sort, witnessElements>>' #
       <<filters, selectedWitnessKey, filteredHearings, sort, witnessElements>>

\* the map is written in the step that ends the pass, and no handler runs
\* during the pass
PublishingStep ==
    /\ (witnessMap' # witnessMap \/ sortedWitnesses' # sortedWitnesses) =>
           (pc = "folding" /\ foldIndex = Len(hearings) /\ pc' = "ready")
    /\ HandlerStep => pc # "folding"

\* nothing is loaded and the map is empty, or the pass is under way and the
\* map still empty, or initialise is done and the map is the complete one
PublishedOrEmpty ==
    \/ hearings = <<>> /\ witnessMap = <<>> /\ sortedWitnesses = <<>>
    \/ pc = "folding" /\ witnessMap = <<>> /\ sortedWitnesses = <<>>
    \/ /\ pc = "ready"
       /\ witnessMap = buildWitnessMap(hearings, excludedLegislatorKeys.keys)
       /\ sortedWitnesses = sortFrom(witnessMap, 1, <<>>)

\* C22: state.witnessMap and state.sortedWitnesses change only in the step
\* that ends the aggregation pass, and then to the complete, filtered and
\* sorted map; an event handler runs either before anything is loaded (no
\* hearings, an empty map) or with the complete map, never with hearings
\* loaded and the map partly folded, unfiltered or missing.
C22_PublishedOnlyWhenComplete == []PublishedOrEmpty /\ [][PublishingStep]_vars

\* handlers have run while initialise awaits its loads: a search and the
\* dual-chamber toggle, with nothing loaded yet
C22_HandlersRanWhileAwaiting ==
    /\ pc = "awaiting"
    /\ filters.witnessQuery # <<>>
    /\ filters.dualChamberOnly
    /\ hearings = <<>>
    /\ witnessMap = <<>>

\* a step of buildWitnessMap leaves what it was given as it was
InputsKept ==
    pc = "folding" =>
        /\ hearings' = hearings
        /\ excludedLegislatorKeys' = excludedLegislatorKeys

\* C23: buildWitnessMap and shouldIncludeWitness leave their inputs as they
\* were: no step of the pass changes a hearing (id, chamber, witnesses,
\* witnessKeys) or the set of excluded keys.
C23_PassLeavesInputsUnchanged == [][InputsKept]_vars

\* the pass has run over hearings with witnesses, with a set of excluded keys
\* that is not empty, and shouldIncludeWitness has dropped an entry
C23_PassDoneWithExclusions ==
    /\ pc = "ready"
    /\ excludedLegislatorKeys.keys # {}
    /\ \E p \in DOMAIN hearings : hearings[p].witnesses # <<>>
    /\ Len(witnessMap) < Len(map)

\* C24: in the database explorer a selected witness is a key of
\* state.witnessMap and is shown in the witness list: its name contains the
\* search query (both in lower case, as the list compares them) and, with
\* dual-chamber-only on, it has appeared in two chambers.
C24_SelectedWitnessIsShown ==
    (explorer = "db" /\ selectedWitnessKey # JSNull) =>
        /\ selectedWitnessKey \in MapKeys(witnessMap)
        /\ LET witness == MapGet(witnessMap, selectedWitnessKey)
           IN  /\ includes(toLowerCase(witness.name), toLowerCase(filters.witnessQuery))
               /\ filters.dualChamberOnly => Cardinality(witness.chambers) >= 2

\* a witness is selected under a search and with dual-chamber-only on
C24_SelectedUnderSearchAndDual ==
    /\ explorer = "db"
    /\ selectedWitnessKey # JSNull
    /\ filters.witnessQuery # <<>>
    /\ filters.dualChamberOnly

\* the hearing at position p is let through by the committee, tag and date
\* filters and holds the selected witness, if there is one
InTable(p) ==
    LET hearing == hearings[p]
    IN  /\ filters.committee = AllOption \/ hearing.committee = filters.committee
        /\ filters.tag = AllOption \/ \E t \in DOMAIN hearing.tags : hearing.tags[t] = filters.tag
        /\ \/ filters.startDate.isNull
           \/ hearing.dateObj.isNull
           \/ hearing.dateObj.time >= filters.startDate.time
        /\ \/ filters.endDate.isNull
           \/ hearing.dateObj.isNull
           \/ hearing.dateObj.time <= filters.endDate.time
        /\ \/ selectedWitnessKey = JSNull
           \/ \E k \in DOMAIN hearing.witnessKeys : hearing.witnessKeys[k] = selectedWitnessKey

\* C25: in the database explorer, whenever no call of initialise or of a
\* handler is under way, state.filteredHearings holds exactly the hearings of
\* state.hearings that pass the committee, tag and date filters and, with a
\* witness selected, have the selected key among their witnessKeys.
C25_TableMatchesFilters ==
    (explorer = "db" /\ pc # "folding") =>
        filteredHearings = { p \in DOMAIN hearings : InTable(p) }

\* the dual-chamber toggle has cleared the selection on its own, and the
\* table holds all three hearings again
C25_ToggleClearedSelection ==
    /\ explorer = "db"
    /\ pc = "ready"
    /\ filters.dualChamberOnly
    /\ selectedWitnessKey = JSNull
    /\ filters.witnessQuery = <<"s","m","i","t","h">>
    /\ filteredHearings = {1, 2, 3}

\* what a click on 'clear filters' leaves behind
Cleared ==
    /\ filters' = [witnessQuery |-> <<>>, committee |-> <<"a","l","l">>,
                   tag |-> <<"a","l","l">>, startDate |-> NullDate,
                   endDate |-> NullDate, dualChamberOnly |-> FALSE]
    /\ selectedWitnessKey' = JSNull
    /\ UNCHANGED <<sort, hearings, witnessMap, sortedWitnesses>>
    /\ filteredHearings' = DOMAIN hearings

\* C28: a click on 'clear filters' empties the query, sets committee and tag
\* to 'all', the two dates to null, dual-chamber-only to false and the
\* selection to null, leaves state.sort, state.hearings, state.witnessMap and
\* state.sortedWitnesses as they were, and puts every loaded hearing into
\* state.filteredHearings.
C28_ClearResetsFiltersOnly == [][ClearFiltersClick => Cleared]_vars

\* after a clear: default filters, no selection, a sort that is not the
\* default, all three hearings in the table
C28_ClearedWithSortKept ==
    /\ pc = "ready"
    /\ filters = DefaultFilters
    /\ selectedWitnessKey = JSNull
    /\ sort = [key |-> "title", direction |-> "desc"]
    /\ filteredHearings = {1, 2, 3}

\* C30: a hearing whose dateObj is null is never taken out of the table by
\* the start date or the end date: whenever the committee and tag filters let
\* it through and it holds the selected witness, if there is one, it is in
\* state.filteredHearings, whatever the two dates are.
C30_NoDateIsNeverFilteredByDate ==
    pc # "folding" =>
        \A p \in DOMAIN hearings :
            ( /\ hearings[p].dateObj.isNull
              /\ filters.committee = AllOption \/ hearings[p].committee = filters.committee
              /\ filters.tag = AllOption \/ filters.tag \in Range(hearings[p].tags)
              /\ selectedWitnessKey = JSNull
                 \/ selectedWitnessKey \in Range(hearings[p].witnessKeys) )
            => p \in filteredHearings

\* both dates are set and take the two dated hearings out of the table; the
\* hearing without a date stays
C30_UndatedHearingStays ==
    /\ ~filters.startDate.isNull
    /\ ~filters.endDate.isNull
    /\ hearings # <<>>
    /\ hearings[3].dateObj.isNull
    /\ filteredHearings = {3}
    /\ selectedWitnessKey = JSNull
    /\ filters.committee = AllOption
    /\ filters.tag = AllOption

\* C26: each of loadSqlJsInstance and loadExcludedLegislatorKeys starts its
\* load at most once, and all calls of one loader return the same promise,
\* whether the first load is still under way, has succeeded or has failed.
C26_OneLoadOnePromise ==
    /\ loadsStarted.sqlJs <= 1
    /\ loadsStarted.excludedKeys <= 1
    /\ \A i, j \in DOMAIN returnedPromises :
          returnedPromises[i].loader = returnedPromises[j].loader
              => returnedPromises[i].promise = returnedPromises[j].promise

\* loadSqlJsInstance was called while its load was under way and again after
\* the load had failed, and loadExcludedLegislatorKeys twice
C26_CalledAgainAfterFailure ==
    /\ Len(returnedPromises) = 4
    /\ returnedPromises[1].loader = "sqlJs"
    /\ returnedPromises[2].loader = "excludedKeys"
    /\ returnedPromises[3].loader = "excludedKeys"
    /\ returnedPromises[4].loader = "sqlJs"
    /\ promises[sqlJsInstancePromise].state = "rejected"
    /\ promises[excludedLegislatorKeysPromise].state = "fulfilled"

\* the rows of hearing id whose name cell is not blank, in row order
NamedRows(id) ==
    LET Mine(row) == row.hearing_id = id /\ trim(row.name) # <<>>
    IN  SelectSeq(attachRows, Mine)

\* C27: after attachWitnessesToHearings every hearing has witnesses,
\* witnessDetails and witnessKeys of one length, witnessKeys[i] =
\* nameToKey(witnesses[i]), keys that are non-empty and pairwise distinct, and
\* the names kept are the first of each key in row order (every key of the
\* rows is kept, in the order of first appearance), each with the detail of
\* its own row.
C27_AttachedListsAgree ==
    attached.done =>
        \A h \in DOMAIN attached.hearings :
            LET hearing == attached.hearings[h]
                rows == NamedRows(hearing.id)
                First(key) == CHOOSE r \in DOMAIN rows :
                                /\ nameToKey(rows[r].name) = key
                                /\ \A q \in 1..(r - 1) : nameToKey(rows[q].name) # key
            IN  /\ Len(hearing.witnesses) = Len(hearing.witnessKeys)
                /\ Len(hearing.witnessDetails) = Len(hearing.witnessKeys)
                /\ \A i \in DOMAIN hearing.witnessKeys :
                    /\ hearing.witnessKeys[i] = nameToKey(hearing.witnesses[i])
                    /\ hearing.witnessKeys[i] # <<>>
                    /\ \A j \in DOMAIN hearing.witnessKeys :
                          i # j => hearing.witnessKeys[i] # hearing.witnessKeys[j]
                    /\ \E r \in DOMAIN rows : nameToKey(rows[r].name) = hearing.witnessKeys[i]
                /\ { hearing.witnessKeys[i] : i \in DOMAIN hearing.witnessKeys } =
                   { nameToKey(rows[r].name) : r \in DOMAIN rows }
                /\ \A i \in DOMAIN hearing.witnessKeys :
                    LET r == First(hearing.witnessKeys[i])
                    IN  /\ hearing.witnesses[i] = trim(rows[r].name)
                        /\ hearing.witnessDetails[i] =
                              [name |-> trim(rows[r].name), title |-> trim(rows[r].title)]
                        /\ \A j \in DOMAIN hearing.witnessKeys :
                              i < j => r < First(hearing.witnessKeys[j])

\* hearing 1 was given 'Jane Doe', ' jane doe ' and 'John Smith' and keeps the
\* first and the third, each with its title
C27_SecondSpellingDropped ==
    /\ attached.done
    /\ Len(attachRows) = 3
    /\ \A r \in 1..3 : attachRows[r].hearing_id = 1
    /\ attachRows[1].name = JaneDoe
    /\ attachRows[2].name = JaneDoeLowerPadded
    /\ attachRows[3].name = JohnSmith
    /\ attachRows[1].title # attachRows[2].title
    /\ attachRows[3].title = attachRows[2].title
    /\ attached.hearings[1].witnesses = <<JaneDoe, JohnSmith>>

\* the text parseCSV reads: without the byte order mark, every line end a
\* line feed
CsvLines ==
    normaliseNewlines(IF csvText # <<>> /\ csvText[1] = BOM THEN Tail(csvText)
                      ELSE csvText, 1)
\* position i of the text lies inside a quoted field: the double quotes
\* before it are odd in number
InsideQuotes(text, i) ==
    Cardinality({ q \in 1..(i - 1) : text[q] = "\"" }) % 2 = 1
\* the commas and the line feeds outside quoted fields
OuterCommas(text) == { i \in DOMAIN text : text[i] = "," /\ ~InsideQuotes(text, i) }
OuterNewlines(text) == { i \in DOMAIN text : text[i] = "\n" /\ ~InsideQuotes(text, i) }
\* every quoted field of the text is closed
QuotesClosed(text) == ~InsideQuotes(text, Len(text) + 1)
\* the text ends with a line feed outside a quoted field, or is empty
EndsWithNewline(text) ==
    text = <<>> \/ (text[Len(text)] = "\n" /\ ~InsideQuotes(text, Len(text)))
CellCount(rows) ==
    Cardinality({ <<r, c>> \in (DOMAIN rows) \X (1..(MaxCsvLength + 2)) : c <= Len(rows[r]) })

\* only a comma outside quotes ends a cell and only a line feed outside
\* quotes ends a row
QuotedSeparatorsDoNotSplit ==
    csvParsed.done =>
        /\ Len(csvParsed.rows) <= Cardinality(OuterNewlines(CsvLines)) + 1
        /\ CellCount(csvParsed.rows) =
               Cardinality(OuterCommas(CsvLines)) + Len(csvParsed.rows)
\* a quoted field with one pair of double quotes in it is one cell, with one
\* double quote where the pair was and everything else as written
DoubledQuoteIsOneQuote ==
    csvParsed.done =>
        \A x, y \in SeqsUpTo({ "a", ",", "\n" }, MaxCsvLength - 4) :
            csvText = <<"\"">> \o x \o <<"\"", "\"">> \o y \o <<"\"">>
                => csvParsed.rows = << << x \o <<"\"">> \o y >> >>
\* a last row that no line feed ends is a row
FinalRowEmitted ==
    (csvParsed.done /\ QuotesClosed(CsvLines) /\ ~EndsWithNewline(CsvLines)) =>
        Len(csvParsed.rows) = Cardinality(OuterNewlines(CsvLines)) + 1
\* a line feed at the end of the text ends the last row and starts no other
TrailingNewlineAddsNoRow ==
    (csvParsed.done /\ EndsWithNewline(CsvLines)) =>
        Len(csvParsed.rows) = Cardinality(OuterNewlines(CsvLines))

\* C29: parseCSV: a comma or a newline inside a double-quoted field ends
\* neither the cell nor the row, two double quotes in a row inside a quoted
\* field give one double quote, a last row without a newline after it is
\* still a row, and a newline after the last row adds no empty row.
C29_ParseCsvRowsAndQuotes ==
    /\ QuotedSeparatorsDoNotSplit
    /\ DoubledQuoteIsOneQuote
    /\ FinalRowEmitted
    /\ TrailingNewlineAddsNoRow
====
